---- MODULE Spec2Model ----
(***************************************************************************)
(* Job normalisation pipeline of the Jobsearchaide repository              *)
(* (src/job_processor.py, class JobProcessor) as a state machine.          *)
(*                                                                         *)
(* Text is modelled by TLA+ strings (sequences of characters); Python's    *)
(* None is the empty tuple and an Optional value v is the 1-tuple <<v>>.   *)
(***************************************************************************)
EXTENDS Integers, Sequences, FiniteSets, Bags, TLC

(***************************************************************************)
(* Python values                                                           *)
(***************************************************************************)
None == <<>>
Some(v) == <<v>>
Val(o) == o[1]

\* Python truthiness of an Optional[int]: None and 0 are falsy.
TruthyInt(o) == o # None /\ Val(o) # 0

\* dict.get(key, default) on a raw posting (a record whose fields may be absent).
Get(d, key, default) == IF key \in DOMAIN d THEN d[key] ELSE default

Min(a, b) == IF a <= b THEN a ELSE b

\* F applied to a value: the value under a name, as an assignment gives it.  (TLC's
\* coverage statistics expand a LET definition at each of its uses, an argument only once.)
Bind(value, F(_)) == F(value)

(***************************************************************************)
(* Characters and strings.  Scans over a text are written position by      *)
(* position and joined by halving the range, so that the depth of          *)
(* evaluation grows with the logarithm of the length of the text.          *)
(***************************************************************************)
At(s, i) == SubSeq(s, i, i)

\* the Python slice s[a-1:b]: positions a..b of s as far as they exist
Slice(s, a, b) ==
    SubSeq(s, IF a < 1 THEN 1 ELSE a, IF b > Len(s) THEN Len(s) ELSE b)

\* F(lo) \o ... \o F(hi); empty ("" or <<>>) when the range is empty
RECURSIVE Cat(_, _, _, _)
Cat(F(_), empty, lo, hi) ==
    IF lo > hi THEN empty
    ELSE IF lo = hi THEN F(lo)
    ELSE LET mid == (lo + hi) \div 2
         IN  Cat(F, empty, lo, mid) \o Cat(F, empty, mid + 1, hi)

Digits == {"0", "1", "2", "3", "4", "5", "6", "7", "8", "9"}
LowerLetters ==
    {"a", "b", "c", "d", "e", "f", "g", "h", "i", "j", "k", "l", "m",
     "n", "o", "p", "q", "r", "s", "t", "u", "v", "w", "x", "y", "z"}
UpperLetters ==
    {"A", "B", "C", "D", "E", "F", "G", "H", "I", "J", "K", "L", "M",
     "N", "O", "P", "Q", "R", "S", "T", "U", "V", "W", "X", "Y", "Z"}
Letters == LowerLetters \cup UpperLetters
\* the characters of the model's texts that the regex class \s and str.split() treat as whitespace
Whitespace == {" ", "\t", "\n", "\r", "\f"}

\* str.lower() on one character
LowerChar(c) ==
    CASE c = "A" -> "a" [] c = "B" -> "b" [] c = "C" -> "c" [] c = "D" -> "d"
      [] c = "E" -> "e" [] c = "F" -> "f" [] c = "G" -> "g" [] c = "H" -> "h"
      [] c = "I" -> "i" [] c = "J" -> "j" [] c = "K" -> "k" [] c = "L" -> "l"
      [] c = "M" -> "m" [] c = "N" -> "n" [] c = "O" -> "o" [] c = "P" -> "p"
      [] c = "Q" -> "q" [] c = "R" -> "r" [] c = "S" -> "s" [] c = "T" -> "t"
      [] c = "U" -> "u" [] c = "V" -> "v" [] c = "W" -> "w" [] c = "X" -> "x"
      [] c = "Y" -> "y" [] c = "Z" -> "z" [] OTHER -> c

\* str.lower()
Lower(s) == Cat(LAMBDA i : LowerChar(At(s, i)), "", 1, Len(s))

\* Python's `needle in hay` for strings: substring test
Contains(hay, needle) ==
    \E i \in 1..(Len(hay) - Len(needle) + 1) :
        SubSeq(hay, i, i + Len(needle) - 1) = needle

\* any(k in text for k in keywords), keywords a sequence of strings
AnyIn(keywords, text) == \E n \in 1..Len(keywords) : Contains(text, keywords[n])

\* str.replace(old, new) for a one-character old
ReplaceChar(s, old, new) ==
    Cat(LAMBDA i : IF At(s, i) = old THEN new ELSE At(s, i), "", 1, Len(s))

\* position of the first character of s at or after i that is in set, 0 if none
FirstIn(s, set, i) ==
    IF \E j \in i..Len(s) : At(s, j) \in set
    THEN CHOOSE j \in i..Len(s) :
            At(s, j) \in set /\ \A k \in i..(j - 1) : At(s, k) \notin set
    ELSE 0
\* position of the first character of s at or after i that is not in set, 0 if none
FirstNotIn(s, set, i) ==
    IF \E j \in i..Len(s) : At(s, j) \notin set
    THEN CHOOSE j \in i..Len(s) :
            At(s, j) \notin set /\ \A k \in i..(j - 1) : At(s, k) \in set
    ELSE 0
\* position of the last character of s at or before i that is in set, 0 if none
LastIn(s, set, i) ==
    IF \E j \in 1..i : At(s, j) \in set
    THEN CHOOSE j \in 1..i : At(s, j) \in set /\ \A k \in (j + 1)..i : At(s, k) \notin set
    ELSE 0
\* position of the last character of s that is not in set, 0 if none
LastNotIn(s, set) ==
    IF \E j \in 1..Len(s) : At(s, j) \notin set
    THEN CHOOSE j \in 1..Len(s) :
            At(s, j) \notin set /\ \A k \in (j + 1)..Len(s) : At(s, k) \in set
    ELSE 0
\* position just before the first character in set at or after i (the end of s if none)
EndBefore(s, set, i) ==
    Bind(FirstIn(s, set, i), LAMBDA first : IF first = 0 THEN Len(s) ELSE first - 1)

\* str.split(): the maximal runs of non-whitespace characters, in order
Split(s) ==
    Cat(LAMBDA i : IF At(s, i) \notin Whitespace /\ (i = 1 \/ At(s, i - 1) \in Whitespace)
                   THEN <<SubSeq(s, i, EndBefore(s, Whitespace, i))>>
                   ELSE <<>>,
        <<>>, 1, Len(s))

\* str.split(sep) for a one-character separator: the parts that begin at the start of s
\* and after every separator; empty parts are kept
SplitOn(s, sep) ==
    Cat(LAMBDA i : IF i = 0 \/ At(s, i) = sep
                   THEN <<SubSeq(s, i + 1, EndBefore(s, {sep}, i + 1))>>
                   ELSE <<>>,
        <<>>, 0, Len(s))

\* str.isdigit() (non-empty, all digits)
IsDigit(s) == s # "" /\ \A i \in 1..Len(s) : At(s, i) \in Digits

(***************************************************************************)
(* _clean_text (job_processor.py 156-169)                                  *)
(***************************************************************************)
\* re.sub(r'\s+', ' ', text): every maximal whitespace run becomes one space
CollapseWhitespace(s) ==
    Cat(LAMBDA i : IF At(s, i) \notin Whitespace THEN At(s, i)
                   ELSE IF i > 1 /\ At(s, i - 1) \in Whitespace THEN "" ELSE " ",
        "", 1, Len(s))

\* str.strip()
Strip(s) ==
    IF FirstNotIn(s, Whitespace, 1) = 0 THEN ""
    ELSE SubSeq(s, FirstNotIn(s, Whitespace, 1), LastNotIn(s, Whitespace))

\* the position of the ";" that ends a match of &[a-zA-Z]+; starting at i, 0 if none does
EntityEnd(s, i) ==
    Bind(FirstNotIn(s, Letters, i + 1), LAMBDA after :
        IF i >= 1 /\ i <= Len(s) /\ At(s, i) = "&" /\ after > i + 1 /\ At(s, after) = ";"
        THEN after ELSE 0)

\* re.sub(r'&[a-zA-Z]+;', ' ', text).  A match holds no "&" after its first character,
\* so the match that covers position i starts at the last "&" at or before i.
SubEntities(s) ==
    Cat(LAMBDA i : IF EntityEnd(s, LastIn(s, {"&"}, i)) < i THEN At(s, i)
                   ELSE IF At(s, i) = "&" THEN " " ELSE "",
        "", 1, Len(s))

\* The match of <[^>]+> that covers position i, as <<start, end>>, <<0, 0>> if there is
\* none.  A match ends at the first ">" after its start; scanning left to right, the
\* match that ends at a given ">" starts at the first "<" after the previous ">".
TagAround(s, i) ==
    Bind(FirstIn(s, {">"}, i), LAMBDA end :
    Bind(FirstIn(s, {"<"}, LastIn(s, {">"}, i - 1) + 1), LAMBDA start :
        IF end # 0 /\ start # 0 /\ start <= i /\ end >= start + 2
        THEN <<start, end>> ELSE <<0, 0>>))

\* re.sub(r'<[^>]+>', ' ', text)
SubTags(s) ==
    Cat(LAMBDA i : Bind(TagAround(s, i), LAMBDA tag :
                       IF tag = <<0, 0>> THEN At(s, i)
                       ELSE IF tag[1] = i THEN " " ELSE ""),
        "", 1, Len(s))

_clean_text(text) ==
    IF text = "" THEN ""
    ELSE SubTags(SubEntities(Strip(CollapseWhitespace(text))))

(***************************************************************************)
(* Regular expressions (module re) as far as the patterns of               *)
(* job_processor.py need them.  A pattern is a tree of records:            *)
(*   set : one character in (neg = FALSE) or not in (neg = TRUE) chars     *)
(*   seq : the patterns rs one after the other                             *)
(*   alt : the alternatives rs, earlier ones preferred                     *)
(*   rep : r repeated min..max times (max = -1: unbounded), greedy         *)
(*   grp : capturing group number k around r                               *)
(* ReMatch gives every way the pattern matches at a position, in the       *)
(* order in which a backtracking matcher tries them, so the head of the    *)
(* result is the match re reports.  All patterns are matched with          *)
(* re.IGNORECASE: characters are compared in lower case.                   *)
(***************************************************************************)
ReSet(chars) == [t |-> "set", neg |-> FALSE, chars |-> chars]
ReNot(chars) == [t |-> "set", neg |-> TRUE, chars |-> chars]
ReSeq(rs) == [t |-> "seq", rs |-> rs]
ReAlt(rs) == [t |-> "alt", rs |-> rs]
ReRep(r, min, max) == [t |-> "rep", r |-> r, min |-> min, max |-> max]
ReStar(r) == ReRep(r, 0, -1)
RePlus(r) == ReRep(r, 1, -1)
ReOpt(r) == ReRep(r, 0, 1)
ReGrp(k, r) == [t |-> "grp", k |-> k, r |-> r]
\* a literal string
ReLit(str) == ReSeq([i \in 1..Len(str) |-> ReSet({At(str, i)})])
ReDigit == ReSet(Digits)
ReSpace == ReSet(Whitespace)

RECURSIVE ReMatch(_, _, _, _)
RECURSIVE ReMatchSeq(_, _, _, _, _)
RECURSIVE ReMatchAlt(_, _, _, _, _)
RECURSIVE ReMatchRep(_, _, _, _, _)
RECURSIVE ReThenSeq(_, _, _, _)
RECURSIVE ReThenRep(_, _, _, _, _)

\* the matches of r at position i of s: <<[p |-> position after the match, caps |-> groups]>>
ReMatch(r, s, i, caps) ==
    CASE r.t = "set" ->
            IF i <= Len(s)
               /\ ((LowerChar(At(s, i)) \in {LowerChar(c) : c \in r.chars}) # r.neg)
            THEN <<[p |-> i + 1, caps |-> caps]>>
            ELSE <<>>
      [] r.t = "seq" -> ReMatchSeq(r.rs, 1, s, i, caps)
      [] r.t = "alt" -> ReMatchAlt(r.rs, 1, s, i, caps)
      [] r.t = "rep" -> ReMatchRep(r, 0, s, i, caps)
      [] r.t = "grp" ->
            Bind(ReMatch(r.r, s, i, caps), LAMBDA ms :
                [n \in 1..Len(ms) |->
                    [p |-> ms[n].p,
                     caps |-> [ms[n].caps EXCEPT ![r.k] = Some(SubSeq(s, i, ms[n].p - 1))]]])

\* rs[k..] one after the other
ReMatchSeq(rs, k, s, i, caps) ==
    IF k > Len(rs) THEN <<[p |-> i, caps |-> caps]>>
    ELSE ReThenSeq(ReMatch(rs[k], s, i, caps), rs, k + 1, s)

\* for every match of ms, in order, the matches of the rest of the sequence
ReThenSeq(ms, rs, k, s) ==
    Cat(LAMBDA n : ReMatchSeq(rs, k, s, ms[n].p, ms[n].caps), <<>>, 1, Len(ms))

ReMatchAlt(rs, k, s, i, caps) ==
    IF k > Len(rs) THEN <<>>
    ELSE ReMatch(rs[k], s, i, caps) \o ReMatchAlt(rs, k + 1, s, i, caps)

\* the number of characters of s from position i on that r (a set) matches, one after another
SetRun(r, s, i) ==
    LET ok(j) == (LowerChar(At(s, j)) \in {LowerChar(c) : c \in r.chars}) # r.neg
    IN  IF \A j \in i..Len(s) : ok(j) THEN Len(s) - i + 1
        ELSE (CHOOSE j \in i..Len(s) : ~ok(j) /\ \A k \in i..(j - 1) : ok(k)) - i

\* greedy repetition after `done` iterations: one more iteration first, then stopping here.
\* The repetition of a single character set is the run of matching characters, longest first.
ReMatchRep(r, done, s, i, caps) ==
    IF r.r.t = "set"
    THEN Bind(IF r.max = -1 THEN SetRun(r.r, s, i) ELSE Min(SetRun(r.r, s, i), r.max),
              LAMBDA top :
                 [n \in 1..(top - r.min + 1) |-> [p |-> i + top - n + 1, caps |-> caps]])
    ELSE LET more == IF r.max = -1 \/ done < r.max THEN ReMatch(r.r, s, i, caps) ELSE <<>>
             stop == IF done >= r.min THEN <<[p |-> i, caps |-> caps]>> ELSE <<>>
         IN  ReThenRep(more, r, done + 1, s, i) \o stop

\* for every match of ms that consumed something, in order, the further iterations
ReThenRep(ms, r, done, s, i) ==
    Cat(LAMBDA n : IF ms[n].p > i THEN ReMatchRep(r, done, s, ms[n].p, ms[n].caps) ELSE <<>>,
        <<>>, 1, Len(ms))

\* the match of r at position i as re reports it, None if r does not match there.
\* groups is the number of capturing groups of the pattern (len(match.groups())).
ReMatchAt(r, groups, s, i) ==
    Bind(ReMatch(r, s, i, [g \in 1..groups |-> None]), LAMBDA ms :
        IF ms = <<>> THEN None
        ELSE Some([start |-> i, end |-> ms[1].p, caps |-> ms[1].caps,
                   group0 |-> SubSeq(s, i, ms[1].p - 1)]))

\* the leftmost match that starts in lo..hi, None if there is none
RECURSIVE ReSearchIn(_, _, _, _, _)
ReSearchIn(r, groups, s, lo, hi) ==
    IF lo > hi THEN None
    ELSE IF lo = hi THEN ReMatchAt(r, groups, s, lo)
    ELSE Bind(ReSearchIn(r, groups, s, lo, (lo + hi) \div 2), LAMBDA left :
             IF left # None THEN left
             ELSE ReSearchIn(r, groups, s, (lo + hi) \div 2 + 1, hi))

\* re.search from position i
ReSearch(r, groups, s, i) == ReSearchIn(r, groups, s, i, Len(s) + 1)

\* re.finditer: the non-overlapping matches from position i on, left to right
RECURSIVE FindIter(_, _, _, _)
FindIter(r, groups, s, i) ==
    Bind(ReSearch(r, groups, s, i), LAMBDA m :
        IF m = None THEN <<>>
        ELSE <<Val(m)>> \o FindIter(r, groups, s,
                                    IF Val(m).end = Val(m).start THEN Val(m).end + 1
                                    ELSE Val(m).end))

(***************************************************************************)
(* _parse_salary (job_processor.py 171-213)                                *)
(***************************************************************************)
\* \d{1,3}(?:,\d{3})*
ReThousands == ReSeq(<<ReRep(ReDigit, 1, 3), ReStar(ReSeq(<<ReLit(","), ReRep(ReDigit, 3, 3)>>))>>)
\* \d{1,3}(?:,\d{3})*(?:\.\d{2})?
ReAmount == ReSeq(<<ReThousands, ReOpt(ReSeq(<<ReLit("."), ReRep(ReDigit, 2, 2)>>))>>)
\* [-to]+ : the class also holds the en and em dash, which no text of the model contains
ReDashTo == RePlus(ReSet({"-", "t", "o"}))
\* [-] : likewise
ReDash == ReSet({"-"})
\* per\s+year
RePerYear == ReSeq(<<ReLit("per"), RePlus(ReSpace), ReLit("year")>>)

\* the patterns of salary_patterns, in order, each with its number of groups
salary_patterns == <<
    \* \$(AMOUNT)\s*[-to]+\s*\$?(AMOUNT)
    [groups |-> 2,
     re |-> ReSeq(<<ReLit("$"), ReGrp(1, ReAmount), ReStar(ReSpace), ReDashTo, ReStar(ReSpace),
                    ReOpt(ReLit("$")), ReGrp(2, ReAmount)>>)],
    \* \$(THOUSANDS)\s*[-]\s*(THOUSANDS)
    [groups |-> 2,
     re |-> ReSeq(<<ReLit("$"), ReGrp(1, ReThousands), ReStar(ReSpace), ReDash, ReStar(ReSpace),
                    ReGrp(2, ReThousands)>>)],
    \* (THOUSANDS)\s*[-to]+\s*(THOUSANDS)\s*(?:USD|dollars?|per\s+year|annually)
    [groups |-> 2,
     re |-> ReSeq(<<ReGrp(1, ReThousands), ReStar(ReSpace), ReDashTo, ReStar(ReSpace),
                    ReGrp(2, ReThousands), ReStar(ReSpace),
                    ReAlt(<<ReLit("USD"), ReSeq(<<ReLit("dollar"), ReOpt(ReLit("s"))>>),
                            RePerYear, ReLit("annually")>>)>>)],
    \* \$(AMOUNT)\s*(?:per\s+year|annually|/year|yr)
    [groups |-> 1,
     re |-> ReSeq(<<ReLit("$"), ReGrp(1, ReAmount), ReStar(ReSpace),
                    ReAlt(<<RePerYear, ReLit("annually"), ReLit("/year"), ReLit("yr")>>)>>)],
    \* (THOUSANDS)\s*k\s*[-to]+\s*(THOUSANDS)\s*k
    [groups |-> 2,
     re |-> ReSeq(<<ReGrp(1, ReThousands), ReStar(ReSpace), ReLit("k"), ReStar(ReSpace), ReDashTo,
                    ReStar(ReSpace), ReGrp(2, ReThousands), ReStar(ReSpace), ReLit("k")>>)]
>>

DigitValue(c) ==
    CASE c = "0" -> 0 [] c = "1" -> 1 [] c = "2" -> 2 [] c = "3" -> 3 [] c = "4" -> 4
      [] c = "5" -> 5 [] c = "6" -> 6 [] c = "7" -> 7 [] c = "8" -> 8 [] c = "9" -> 9

\* int(s.replace(',', '').replace('.', '')) for s made of digits, commas and dots
RECURSIVE ParseInt(_, _)
ParseInt(s, acc) ==
    IF s = "" THEN acc
    ELSE IF Head(s) \in {",", "."} THEN ParseInt(Tail(s), acc)
         ELSE ParseInt(Tail(s), 10 * acc + DigitValue(Head(s)))

SalaryBandMin == 10000
SalaryBandMax == 1000000
\* a variant of InSalaryBand without the upper end
InSalaryBand_NoUpper(v) == SalaryBandMin <= v
InSalaryBand(v) == SalaryBandMin <= v /\ v <= SalaryBandMax

\* a variant of SalaryOfMatch in which a single amount sets salary_min only
SalaryOfMatch_SingleSetsMin(groups, m) ==
    Bind(IF Contains(Lower(m.group0), "k") THEN 1000 ELSE 1, LAMBDA k :
        IF groups = 2
        THEN Bind(ParseInt(Val(m.caps[1]), 0) * k, LAMBDA min_sal :
             Bind(ParseInt(Val(m.caps[2]), 0) * k, LAMBDA max_sal :
                 IF InSalaryBand(min_sal) /\ InSalaryBand(max_sal)
                 THEN Some(<<Some(min_sal), Some(max_sal)>>) ELSE None))
        ELSE Bind(ParseInt(Val(m.caps[1]), 0) * k, LAMBDA salary :
                 IF InSalaryBand(salary) THEN Some(<<Some(salary), None>>) ELSE None))

\* a variant of SalaryOfMatch without the multiplication by 1000
SalaryOfMatch_NoThousands(groups, m) ==
    IF groups = 2
    THEN Bind(ParseInt(Val(m.caps[1]), 0), LAMBDA min_sal :
         Bind(ParseInt(Val(m.caps[2]), 0), LAMBDA max_sal :
             IF InSalaryBand(min_sal) /\ InSalaryBand(max_sal)
             THEN Some(<<Some(min_sal), Some(max_sal)>>) ELSE None))
    ELSE Bind(ParseInt(Val(m.caps[1]), 0), LAMBDA salary :
             IF InSalaryBand(salary) THEN Some(<<Some(salary), Some(salary)>>) ELSE None)

\* the body of the inner loop for one match: Some(<<min, max>>) when it returns, None when
\* the loop goes on to the next match
SalaryOfMatch(groups, m) ==
    Bind(IF Contains(Lower(m.group0), "k") THEN 1000 ELSE 1, LAMBDA k :
        IF groups = 2
        THEN Bind(ParseInt(Val(m.caps[1]), 0) * k, LAMBDA min_sal :
             Bind(ParseInt(Val(m.caps[2]), 0) * k, LAMBDA max_sal :
                 IF InSalaryBand(min_sal) /\ InSalaryBand(max_sal)
                 THEN Some(<<Some(min_sal), Some(max_sal)>>) ELSE None))
        ELSE Bind(ParseInt(Val(m.caps[1]), 0) * k, LAMBDA salary :
                 IF InSalaryBand(salary) THEN Some(<<Some(salary), Some(salary)>>) ELSE None))

\* the first match of ms[n..] that returns
RECURSIVE SalaryOfMatches(_, _, _)
SalaryOfMatches(groups, ms, n) ==
    IF n > Len(ms) THEN None
    ELSE Bind(SalaryOfMatch(groups, ms[n]), LAMBDA r :
             IF r # None THEN r ELSE SalaryOfMatches(groups, ms, n + 1))

\* the first pattern of salary_patterns[n..] with a match that returns
RECURSIVE SalaryOfPatterns(_, _)
SalaryOfPatterns(text, n) ==
    IF n > Len(salary_patterns) THEN <<None, None>>
    ELSE Bind(salary_patterns[n], LAMBDA pat :
         Bind(SalaryOfMatches(pat.groups, FindIter(pat.re, pat.groups, text, 1), 1), LAMBDA r :
             IF r # None THEN Val(r) ELSE SalaryOfPatterns(text, n + 1)))

\* a variant of _parse_salary that looks only at the first pattern that has a match
_parse_salary_FirstMatchingPattern(text) ==
    Bind({n \in 1..Len(salary_patterns) :
             FindIter(salary_patterns[n].re, salary_patterns[n].groups, text, 1) # <<>>},
         LAMBDA matching :
        IF text = "" \/ matching = {} THEN <<None, None>>
        ELSE Bind(salary_patterns[CHOOSE n \in matching : \A m \in matching : n <= m],
                  LAMBDA pat :
             Bind(SalaryOfMatches(pat.groups, FindIter(pat.re, pat.groups, text, 1), 1),
                  LAMBDA r :
                 IF r # None THEN Val(r) ELSE <<None, None>>)))

\* returns <<salary_min, salary_max>>, each None or Some(int)
_parse_salary(text) ==
    IF text = "" THEN <<None, None>> ELSE SalaryOfPatterns(text, 1)

(***************************************************************************)
(* _generate_summary (job_processor.py 215-250)                            *)
(***************************************************************************)
\* sep.join(parts)
RECURSIVE Join(_, _)
Join(parts, sep) ==
    IF parts = <<>> THEN ""
    ELSE IF Len(parts) = 1 THEN parts[1]
    ELSE parts[1] \o sep \o Join(Tail(parts), sep)

SentenceMarks == {".", "!", "?"}

\* re.split(r'[.!?]+', text): the parts that begin at the start of the text and after
\* every run of sentence marks; empty parts are kept
SplitSentences(s) ==
    Cat(LAMBDA i : IF i = 0 \/ (At(s, i) \in SentenceMarks
                                /\ (i = Len(s) \/ At(s, i + 1) \notin SentenceMarks))
                   THEN <<SubSeq(s, i + 1, EndBefore(s, SentenceMarks, i + 1))>>
                   ELSE <<>>,
        <<>>, 0, Len(s))

important_keywords ==
    <<"responsible", "role", "position", "seeking", "looking", "opportunity",
      "experience", "skills", "requirements", "qualifications", "team">>

MaxSentences == 5
MinSentenceLen == 20

\* the loop of lines 230-242 from sentence n on, summary_sentences being chosen
RECURSIVE SummaryLoop(_, _, _, _)
SummaryLoop(sentences, n, chosen, max_summary_length) ==
    IF n > Len(sentences) \/ n > MaxSentences THEN chosen
    ELSE Bind(Strip(sentences[n]), LAMBDA sentence :
         Bind(IF AnyIn(important_keywords, Lower(sentence)) \/ chosen = <<>>
              THEN Append(chosen, sentence) ELSE chosen, LAMBDA next :
             IF sentence # "" /\ Len(sentence) > MinSentenceLen
             THEN IF Len(Join(next, " ")) > max_summary_length THEN next
                  ELSE SummaryLoop(sentences, n + 1, next, max_summary_length)
             ELSE SummaryLoop(sentences, n + 1, chosen, max_summary_length)))

\* s.rsplit(' ', 1)[0]
RSplitSpaceHead(s) ==
    Bind(LastIn(s, {" "}, Len(s)), LAMBDA i : IF i = 0 THEN s ELSE SubSeq(s, 1, i - 1))

_generate_summary(description, max_summary_length) ==
    IF description = "" THEN ""
    ELSE Bind(Join(SummaryLoop(SplitSentences(description), 1, <<>>, max_summary_length),
                   " "),
              LAMBDA summary :
                 IF Len(summary) > max_summary_length
                 THEN RSplitSpaceHead(Slice(summary, 1, max_summary_length)) \o "..."
                 ELSE summary)

(***************************************************************************)
(* _extract_requirements (job_processor.py 252-273)                        *)
(***************************************************************************)
\* [:\-\s]*
ReReqSep == ReStar(ReSet({":", "-"} \cup Whitespace))
\* ([^.]*(?:\.[^.]*){0,n})
ReReqText(n) ==
    ReGrp(1, ReSeq(<<ReStar(ReNot({"."})),
                     ReRep(ReSeq(<<ReLit("."), ReStar(ReNot({"."}))>>), 0, n)>>))

req_patterns == <<
    \* (?:requirements?|qualifications?|skills?)[:\-\s]*([^.]*(?:\.[^.]*){0,3})
    ReSeq(<<ReAlt(<<ReSeq(<<ReLit("requirement"), ReOpt(ReLit("s"))>>),
                    ReSeq(<<ReLit("qualification"), ReOpt(ReLit("s"))>>),
                    ReSeq(<<ReLit("skill"), ReOpt(ReLit("s"))>>)>>),
            ReReqSep, ReReqText(3)>>),
    \* (?:you\s+(?:will\s+)?(?:need|have|bring))[:\-\s]*([^.]*(?:\.[^.]*){0,2})
    ReSeq(<<ReLit("you"), RePlus(ReSpace),
            ReOpt(ReSeq(<<ReLit("will"), RePlus(ReSpace)>>)),
            ReAlt(<<ReLit("need"), ReLit("have"), ReLit("bring")>>),
            ReReqSep, ReReqText(2)>>),
    \* (?:must\s+have|required)[:\-\s]*([^.]*(?:\.[^.]*){0,2})
    ReSeq(<<ReAlt(<<ReSeq(<<ReLit("must"), RePlus(ReSpace), ReLit("have")>>),
                    ReLit("required")>>),
            ReReqSep, ReReqText(2)>>)
>>

MinRequirementLen == 10
MaxRequirements == 3

\* the captures of the matches ms that are kept, in order
RECURSIVE RequirementsOfMatches(_, _)
RequirementsOfMatches(ms, n) ==
    IF n > Len(ms) THEN <<>>
    ELSE Bind(Strip(Val(ms[n].caps[1])), LAMBDA req_text :
             IF req_text # "" /\ Len(req_text) > MinRequirementLen THEN <<req_text>> ELSE <<>>)
         \o RequirementsOfMatches(ms, n + 1)

RECURSIVE RequirementsOfPatterns(_, _)
RequirementsOfPatterns(description, n) ==
    IF n > Len(req_patterns) THEN <<>>
    ELSE RequirementsOfMatches(FindIter(req_patterns[n], 1, description, 1), 1)
         \o RequirementsOfPatterns(description, n + 1)

_extract_requirements(description) ==
    IF description = "" THEN ""
    ELSE Bind(RequirementsOfPatterns(description, 1), LAMBDA requirements :
             Join(SubSeq(requirements, 1, Min(MaxRequirements, Len(requirements))), "; "))

(***************************************************************************)
(* _generate_job_id (job_processor.py 124-154)                             *)
(***************************************************************************)
SchemeChars == Letters \cup Digits \cup {"+", "-", "."}

\* urllib.parse.urlparse for URLs without ";" parameters: [netloc, path, query]
UrlParse(url) ==
    Bind(FirstIn(url, {":"}, 1), LAMBDA colon :
    Bind(colon > 1 /\ At(url, 1) \in Letters
         /\ \A i \in 1..(colon - 1) : At(url, i) \in SchemeChars, LAMBDA hasScheme :
    Bind(IF hasScheme THEN SubSeq(url, colon + 1, Len(url)) ELSE url, LAMBDA rest1 :
    Bind(Slice(rest1, 1, 2) = "//", LAMBDA hasNetloc :
    Bind(FirstIn(rest1, {"/", "?", "#"}, 3), LAMBDA delim :
    Bind(IF ~hasNetloc THEN ""
         ELSE IF delim = 0 THEN SubSeq(rest1, 3, Len(rest1))
         ELSE SubSeq(rest1, 3, delim - 1), LAMBDA netloc :
    Bind(IF ~hasNetloc THEN rest1
         ELSE IF delim = 0 THEN "" ELSE SubSeq(rest1, delim, Len(rest1)), LAMBDA rest2 :
    Bind(FirstIn(rest2, {"#"}, 1), LAMBDA hash :
    Bind(IF hash = 0 THEN rest2 ELSE SubSeq(rest2, 1, hash - 1), LAMBDA rest3 :
    Bind(FirstIn(rest3, {"?"}, 1), LAMBDA qmark :
        [netloc |-> netloc,
         path |-> IF qmark = 0 THEN rest3 ELSE SubSeq(rest3, 1, qmark - 1),
         query |-> IF qmark = 0 THEN "" ELSE SubSeq(rest3, qmark + 1, Len(rest3))]
    ))))))))))

\* urllib.parse.parse_qs for queries without percent escapes: the <<name, value>> pairs in
\* order; a field without "=" or with an empty value is dropped, "+" stands for a space
RECURSIVE QueryPairs(_, _)
QueryPairs(fields, n) ==
    IF n > Len(fields) THEN <<>>
    ELSE Bind(fields[n], LAMBDA f :
         Bind(FirstIn(f, {"="}, 1), LAMBDA eq :
         Bind(ReplaceChar(SubSeq(f, 1, eq - 1), "+", " "), LAMBDA name :
         Bind(ReplaceChar(SubSeq(f, eq + 1, Len(f)), "+", " "), LAMBDA value :
             IF eq = 0 \/ value = "" THEN <<>> ELSE <<<<name, value>>>>))))
         \o QueryPairs(fields, n + 1)
ParseQs(query) == QueryPairs(SplitOn(query, "&"), 1)

\* query_params[param][0]: the value of the first pair named param, None if param is absent
RECURSIVE QueryFirst(_, _, _)
QueryFirst(pairs, param, n) ==
    IF n > Len(pairs) THEN None
    ELSE IF pairs[n][1] = param THEN Some(pairs[n][2]) ELSE QueryFirst(pairs, param, n + 1)

\* a variant of IdParams with the order of the list turned round
IdParams_Reversed == <<"posting_id", "jobId", "job_id", "id">>

IdParams == <<"id", "job_id", "jobId", "posting_id">>

\* for param in [...]: the first parameter of IdParams[n..] that the query has
RECURSIVE IdFromQuery(_, _)
IdFromQuery(pairs, n) ==
    IF n > Len(IdParams) THEN None
    ELSE Bind(QueryFirst(pairs, IdParams[n], 1), LAMBDA v :
             IF v # None THEN v ELSE IdFromQuery(pairs, n + 1))

MinPartLen == 10

\* for part in reversed(path_parts): the last part that is all digits or longer than 10
RECURSIVE IdFromPath(_, _)
IdFromPath(parts, n) ==
    IF n < 1 THEN None
    ELSE IF parts[n] # "" /\ (IsDigit(parts[n]) \/ Len(parts[n]) > MinPartLen)
         THEN Some(parts[n])
         ELSE IdFromPath(parts, n - 1)

\* hashlib.md5(text.encode()).hexdigest()[:16], tabulated for the texts the model hashes
Md5Table == <<
    <<"Data_Scientist_DataCorp", "3b2f09ddee70c731">>,
    <<"Data_Scientist_datacorp", "da06bcb2921858cf">>,
    <<"Senior_Engineer_DataCorp", "65448dda1a690284">>,
    <<"Senior_Engineer_datacorp", "e53b048c45afdcc0">>,
    <<"_", "b14a7b8059d9c055">>,
    <<"_12345", "26713605001ecc72">>,
    <<"_acme", "608604e4a870adc1">>,
    <<"_datacorp", "555cb4a4c3bb0726">>,
    <<"acme.io_4711", "c521d10c174e1319">>,
    <<"boards.io_12345", "90d0465b7172dcc7">>,
    <<"boards.io_15", "71bc83d992275122">>,
    <<"boards.io_3", "515d8756cacc9deb">>,
    <<"boards.io_7", "88c56830a4f64bba">>,
    <<"boards.io_8", "47b296f9dbe7e4f4">>,
    <<"boards.io_9", "192c9eb3bfaaf32a">>,
    <<"boards.io_abcdefghijk", "f8b480139808e833">>,
    <<"boards.io_senior-data-engineer", "e9ccfd10601f87b7">>,
    <<"data_SCIENTIST_DataCorp", "0fee63a83c01aae9">>,
    <<"data_SCIENTIST_datacorp", "9ef159adf4c0106a">>,
    <<"data_scientist_", "57856f5440459657">>,
    <<"data_scientist_datacorp", "dae4cf0c0edc8ad3">>,
    <<"greenhouse.io_998877", "294ae815e6006f1d">>,
    <<"jobs.lever.co_42", "c0c70c724fbb3f6d">>,
    <<"jobs.lever.co_support-agent-remote", "73cf81f778a4dca9">>,
    <<"lever.co_998877", "4564face8b55e10f">>,
    <<"remote_data_analyst_", "fb949f5638219c3d">>,
    <<"remote_data_analyst_acme", "4a2f7a59d07a4718">>,
    <<"senior_engineer_", "79232d26c5485d57">>,
    <<"senior_engineer_datacorp", "b2620dc118cba9db">>,
    <<"telecommute_analyst_", "98d2df6e171eab5a">>
>>
Md5Hex16(text) ==
    LET n == CHOOSE k \in 1..Len(Md5Table) : Md5Table[k][1] = text IN Md5Table[n][2]

\* None when the URL is empty or gives no identifier, else Some(the text that is hashed)
UrlIdentity(url) ==
    IF url = "" THEN None
    ELSE Bind(UrlParse(url), LAMBDA parsed_url :
         Bind(SplitOn(parsed_url.path, "/"), LAMBDA path_parts :
         Bind(IdFromQuery(ParseQs(parsed_url.query), 1), LAMBDA from_query :
         \* `if not job_id_from_url`: None and the empty string are falsy
         Bind(IF from_query # None /\ Val(from_query) # "" THEN from_query
              ELSE IdFromPath(path_parts, Len(path_parts)), LAMBDA job_id_from_url :
             IF job_id_from_url # None /\ Val(job_id_from_url) # ""
             THEN Some(parsed_url.netloc \o "_" \o Val(job_id_from_url))
             ELSE None))))

\* a variant of TitleCompanyIdentity that keeps the letter case
TitleCompanyIdentity_KeepsCase(title, company) ==
    ReplaceChar(title \o "_" \o company, " ", "_")

\* the fallback: title and company in lower case, spaces replaced by underscores
TitleCompanyIdentity(title, company) ==
    ReplaceChar(Lower(title) \o "_" \o Lower(company), " ", "_")

\* a variant of _generate_job_id that uses the URL only when there is no title
_generate_job_id_TitleFirst(title, company, url) ==
    Bind(UrlIdentity(url), LAMBDA from_url :
        IF from_url # None /\ title = "" THEN Md5Hex16(Val(from_url))
        ELSE Md5Hex16(TitleCompanyIdentity(title, company)))

_generate_job_id(title, company, url) ==
    Bind(UrlIdentity(url), LAMBDA from_url :
        IF from_url # None THEN Md5Hex16(Val(from_url))
        ELSE Md5Hex16(TitleCompanyIdentity(title, company)))

(***************************************************************************)
(* _calculate_relevance (job_processor.py 275-298)                         *)
(* A score is an integer number of 1/ScoreScale; the search terms of the   *)
(* model have at most 6 words, for which the scaled arithmetic is exact.   *)
(***************************************************************************)
ScoreScale == 600

\* sum(1 for word in search_words if word in title_words): list membership
CountInList(words, list) ==
    Cardinality({n \in 1..Len(words) : \E k \in 1..Len(list) : list[k] = words[n]})
\* a variant of CountInText that looks for the word among the whitespace-split words of
\* the text
CountInText_WholeWords(words, text) ==
    CountInList(words, Split(text))

\* sum(1 for word in search_words if word in text_to_search): substring test
CountInText(words, text) ==
    Cardinality({n \in 1..Len(words) : Contains(text, words[n])})

\* a variant of CalculateRelevanceRaises for raw_job['search_term'] in place of
\* raw_job.get('search_term', ''): a KeyError when the key is absent
CalculateRelevanceRaises_KeyError(raw_job) ==
    \/ "search_term" \notin DOMAIN raw_job
    \/ Bind(Lower(Get(raw_job, "search_term", "")), LAMBDA search_term :
           search_term # "" /\ Split(search_term) = <<>>)

\* ZeroDivisionError: a search term that is not empty and has no word
CalculateRelevanceRaises(raw_job) ==
    Bind(Lower(Get(raw_job, "search_term", "")), LAMBDA search_term :
        search_term # "" /\ Split(search_term) = <<>>)

\* a variant of _calculate_relevance that counts the words of the title found among the
\* search words, and does not cap the sum
_calculate_relevance_CountsTitleWords(raw_job, title, description) ==
    Bind(Lower(Get(raw_job, "search_term", "")), LAMBDA search_term :
        IF search_term = "" THEN ScoreScale \div 2
        ELSE
    Bind(Lower(title \o " " \o description), LAMBDA text_to_search :
    Bind(Split(search_term), LAMBDA search_words :
    Bind(Split(Lower(title)), LAMBDA title_words :
    Bind(IF Contains(Lower(title), search_term) THEN ScoreScale \div 2 ELSE 0, LAMBDA exact :
    Bind(CountInList(title_words, search_words), LAMBDA title_matches :
    Bind(CountInText(search_words, text_to_search), LAMBDA desc_matches :
        exact
        + (title_matches * 3 * (ScoreScale \div 10)) \div Len(search_words)
        + (desc_matches * 2 * (ScoreScale \div 10)) \div Len(search_words)
    )))))))

\* a variant of _calculate_relevance that returns 0.0 when there is no search term
_calculate_relevance_ZeroDefault(raw_job, title, description) ==
    Bind(Lower(Get(raw_job, "search_term", "")), LAMBDA search_term :
        IF search_term = "" THEN 0
        ELSE
    Bind(Lower(title \o " " \o description), LAMBDA text_to_search :
    Bind(Split(search_term), LAMBDA search_words :
    Bind(Split(Lower(title)), LAMBDA title_words :
    Bind(IF Contains(Lower(title), search_term) THEN ScoreScale \div 2 ELSE 0, LAMBDA exact :
    Bind(CountInList(search_words, title_words), LAMBDA title_matches :
    Bind(CountInText(search_words, text_to_search), LAMBDA desc_matches :
        Min(exact
            + (title_matches * 3 * (ScoreScale \div 10)) \div Len(search_words)
            + (desc_matches * 2 * (ScoreScale \div 10)) \div Len(search_words),
            ScoreScale)
    )))))))

_calculate_relevance(raw_job, title, description) ==
    Bind(Lower(Get(raw_job, "search_term", "")), LAMBDA search_term :
        IF search_term = "" THEN ScoreScale \div 2
        ELSE
    Bind(Lower(title \o " " \o description), LAMBDA text_to_search :
    Bind(Split(search_term), LAMBDA search_words :
    Bind(Split(Lower(title)), LAMBDA title_words :
    Bind(IF Contains(Lower(title), search_term) THEN ScoreScale \div 2 ELSE 0, LAMBDA exact :
    Bind(CountInList(search_words, title_words), LAMBDA title_matches :
    Bind(CountInText(search_words, text_to_search), LAMBDA desc_matches :
        Min(exact
            + (title_matches * 3 * (ScoreScale \div 10)) \div Len(search_words)
            + (desc_matches * 2 * (ScoreScale \div 10)) \div Len(search_words),
            ScoreScale)
    )))))))

(***************************************************************************)
(* _verify_remote_status (job_processor.py 300-319)                        *)
(***************************************************************************)
remote_indicators ==
    <<"remote", "telecommute", "work from home", "wfh", "distributed",
      "virtual", "anywhere", "location independent">>
non_remote_indicators ==
    <<"hybrid", "on-site", "in-person", "office", "local", "commute",
      "relocation", "visa sponsorship">>

\* a variant of _verify_remote_status in which a positive indicator is enough
_verify_remote_status_PositiveWins(title, description, location) ==
    AnyIn(remote_indicators, Lower(title \o " " \o description \o " " \o location))

_verify_remote_status(title, description, location) ==
    Bind(Lower(title \o " " \o description \o " " \o location), LAMBDA text_to_check :
    Bind(AnyIn(remote_indicators, text_to_check), LAMBDA has_remote :
    Bind(AnyIn(non_remote_indicators, text_to_check), LAMBDA has_non_remote :
        has_remote /\ ~has_non_remote)))

(***************************************************************************)
(* _should_include_job (job_processor.py 321-348)                          *)
(* cfg is config.filters: exclude_keywords and exclude_experience_levels   *)
(* are lists of strings, salary_minimum and salary_maximum are Some(int),  *)
(* or None when the YAML file gives the key without a value.               *)
(***************************************************************************)
FilterText(job) == Lower(job.title \o " " \o job.description)

\* the salary comparison of lines 338-339 is evaluated
SalaryRuleReached(job, cfg) ==
    Bind(FilterText(job), LAMBDA text_to_check :
        /\ ~AnyIn(cfg.exclude_keywords, text_to_check)
        /\ ~AnyIn(cfg.exclude_experience_levels, text_to_check)
        /\ TruthyInt(job.salary_min)
        /\ TruthyInt(job.salary_max))

\* TypeError: an int is compared with None (`or` evaluates its right side only when the
\* left side is false)
ShouldIncludeRaises(job, cfg) ==
    /\ SalaryRuleReached(job, cfg)
    /\ \/ cfg.salary_minimum = None
       \/ /\ ~(Val(job.salary_max) < Val(cfg.salary_minimum))
          /\ cfg.salary_maximum = None

\* a variant of _should_include_job without the remote rule
_should_include_job_NoRemoteRule(job, cfg) ==
    Bind(FilterText(job), LAMBDA text_to_check :
        IF AnyIn(cfg.exclude_keywords, text_to_check) THEN FALSE
        ELSE IF AnyIn(cfg.exclude_experience_levels, text_to_check) THEN FALSE
        ELSE IF /\ TruthyInt(job.salary_min) /\ TruthyInt(job.salary_max)
                /\ \/ Val(job.salary_max) < Val(cfg.salary_minimum)
                   \/ Val(job.salary_min) > Val(cfg.salary_maximum)
             THEN FALSE
        ELSE TRUE)

\* a variant of _should_include_job that rejects a job without a parsed salary whenever
\* a positive minimum is configured
_should_include_job_SalaryRequired(job, cfg) ==
    Bind(FilterText(job), LAMBDA text_to_check :
        IF AnyIn(cfg.exclude_keywords, text_to_check) THEN FALSE
        ELSE IF AnyIn(cfg.exclude_experience_levels, text_to_check) THEN FALSE
        ELSE IF /\ TruthyInt(job.salary_min) /\ TruthyInt(job.salary_max)
                /\ \/ Val(job.salary_max) < Val(cfg.salary_minimum)
                   \/ Val(job.salary_min) > Val(cfg.salary_maximum)
             THEN FALSE
        ELSE IF ~TruthyInt(job.salary_min) /\ TruthyInt(cfg.salary_minimum) THEN FALSE
        ELSE IF ~job.is_remote THEN FALSE
        ELSE TRUE)

\* the value returned when nothing is raised
_should_include_job(job, cfg) ==
    Bind(FilterText(job), LAMBDA text_to_check :
        IF AnyIn(cfg.exclude_keywords, text_to_check) THEN FALSE
        ELSE IF AnyIn(cfg.exclude_experience_levels, text_to_check) THEN FALSE
        ELSE IF /\ TruthyInt(job.salary_min) /\ TruthyInt(job.salary_max)
                /\ \/ Val(job.salary_max) < Val(cfg.salary_minimum)
                   \/ Val(job.salary_min) > Val(cfg.salary_maximum)
             THEN FALSE
        ELSE IF ~job.is_remote THEN FALSE
        ELSE TRUE)

(***************************************************************************)
(* _process_single_job (job_processor.py 71-122)                           *)
(* raw_job is a record of strings in which any field may be absent; now is *)
(* the reading of datetime.now().isoformat().  The result is None when an  *)
(* exception is caught at line 120, Some(ProcessedJob) otherwise.          *)
(***************************************************************************)
\* raw_job.get('description', '') or raw_job.get('snippet', '')
RawDescription(raw_job) ==
    IF Get(raw_job, "description", "") # "" THEN raw_job.description
    ELSE Get(raw_job, "snippet", "")

_process_single_job(raw_job, now, cfg) ==
    Bind(_clean_text(Get(raw_job, "title", "")), LAMBDA title :
    Bind(_clean_text(Get(raw_job, "company", "")), LAMBDA company :
    Bind(Get(raw_job, "url", ""), LAMBDA url :
    Bind(_clean_text(Get(raw_job, "location", "")), LAMBDA location :
    Bind(_clean_text(RawDescription(raw_job)), LAMBDA description :
    Bind(_clean_text(Get(raw_job, "salary", "")), LAMBDA salary_text :
    Bind(_parse_salary(salary_text \o " " \o description), LAMBDA salary :
        IF CalculateRelevanceRaises(raw_job) THEN None
        ELSE Some([id |-> _generate_job_id(title, company, url),
                   title |-> title,
                   company |-> company,
                   url |-> url,
                   location |-> location,
                   salary |-> salary_text,
                   salary_min |-> salary[1],
                   salary_max |-> salary[2],
                   description |-> description,
                   summary |-> _generate_summary(description, cfg.output.max_summary_length),
                   requirements |-> _extract_requirements(description),
                   source_site |-> Get(raw_job, "source_site", ""),
                   search_term |-> Get(raw_job, "search_term", ""),
                   posting_date |-> Get(raw_job, "posting_date", ""),
                   found_date |-> Get(raw_job, "found_date", now),
                   is_remote |-> _verify_remote_status(title, description, location),
                   relevance_score |-> _calculate_relevance(raw_job, title, description)])
    )))))))

(***************************************************************************)
(* Inputs of the model                                                     *)
(***************************************************************************)
\* the raw postings the callers submit
RawPostings == <<
    \* accepted under the default filters; the URL path carries the site's job number
    [title |-> "Senior Software Engineer - Remote", company |-> "TechCorp",
     url |-> "https://greenhouse.io/jobs/998877", location |-> "Remote",
     salary |-> "$120,000 - $150,000",
     description |-> "Remote role, 5+ years Python, must have AWS.",
     source_site |-> "greenhouse.io", search_term |-> "software engineer",
     found_date |-> "2024-01-21T10:00:00"],
    \* the same job number on the same host under another title; no description, no found_date
    [title |-> "Software Engineering <b>Intern</b> - Remote",
     url |-> "https://greenhouse.io/jobs/998877?ref=feed",
     snippet |-> "Paid remote internship, $30,000 - $40,000 per year.",
     search_term |-> "Software Engineer"],
    \* no URL; a positive and a negative remote indicator
    [title |-> "Data Scientist", company |-> "DataCorp",
     description |-> "Hybrid or remote. You will need strong SQL and Python skills.",
     search_term |-> "data scientist", found_date |-> "2024-01-21T11:00:00"],
    \* no URL; title and company of the previous posting up to case and whitespace
    [title |-> "  data   SCIENTIST ", company |-> "datacorp", url |-> "",
     description |-> "Join our distributed team &amp; work from home. Pay 50k - 60k.",
     search_term |-> "scientist", found_date |-> "2024-01-22T09:00:00"],
    \* a search term without a word
    [title |-> "Remote DevOps Engineer", url |-> "https://jobs.lever.co/acme?id=42&ref=x",
     description |-> "Work from anywhere.", search_term |-> " ",
     found_date |-> "2024-01-22T10:00:00"],
    \* an excludable experience level; the identifier is a long path segment
    [title |-> "Entry Level Support Agent", company |-> "Acme",
     url |-> "https://jobs.lever.co/acme/support-agent-remote/apply",
     description |-> "Remote position. Requirements: patience and empathy. Apply now!",
     found_date |-> "2024-01-22T11:00:00"],
    \* "telecommute" contains the negative indicator "commute"
    [title |-> "Telecommute Analyst", url |-> "https://example.com/careers",
     description |-> "Telecommute from any state.", search_term |-> "analyst",
     found_date |-> "2024-01-22T12:00:00"]
>>

\* the readings of the clock
Clock == {"2024-02-01T00:00:00", "2024-02-02T00:00:00"}

\* the batches a caller passes to process_jobs
MaxBatch == 2
RawSet == {RawPostings[n] : n \in 1..Len(RawPostings)}
Batches == UNION {[1..n -> RawSet] : n \in 0..MaxBatch}

(***************************************************************************)
(* Config (config.py 77-95): the settings the processor reads.             *)
(***************************************************************************)
DefaultSalaryMinimum == 0
DefaultSalaryMaximum == 1000000
DefaultMaxSummaryLength == 300

\* the settings loaded from the YAML files of the model
InitialConfigs == {
    \* a file without filters and output sections: the defaults of config.py
    [filters |-> [exclude_keywords |-> <<>>, exclude_experience_levels |-> <<>>,
                  salary_minimum |-> Some(DefaultSalaryMinimum),
                  salary_maximum |-> Some(DefaultSalaryMaximum)],
     output |-> [max_summary_length |-> DefaultMaxSummaryLength]],
    \* a file with a salary range, an excluded experience level and short summaries
    [filters |-> [exclude_keywords |-> <<>>, exclude_experience_levels |-> <<"entry level">>,
                  salary_minimum |-> Some(100000), salary_maximum |-> Some(200000)],
     output |-> [max_summary_length |-> 40]],
    \* a file whose salary_ranges gives `minimum:` without a value
    [filters |-> [exclude_keywords |-> <<>>, exclude_experience_levels |-> <<>>,
                  salary_minimum |-> None, salary_maximum |-> Some(DefaultSalaryMaximum)],
     output |-> [max_summary_length |-> DefaultMaxSummaryLength]]
}

\* the command line overrides of main.py
CliSalaryMin == {20000}
CliSalaryMax == {45000}
CliExcludeKeywords == {<<"Intern">>}
\* the longest exclude_keywords list the model lets the overrides build
MaxKeywords == 1
MaxCalls == 2

\* _process_single_job tabulated for the inputs of the model (it reads of the
\* configuration only max_summary_length).  The @@ makes TLC enumerate the function
\* once instead of evaluating its body at every application.
SummaryLengths == {c.output.max_summary_length : c \in InitialConfigs}
\* a variant of JobTable in which a search term without a word is taken as no search term
JobTable_BlankTermAsAbsent ==
    [k \in RawSet \X Clock \X SummaryLengths |->
        _process_single_job(IF CalculateRelevanceRaises(k[1])
                            THEN [f \in DOMAIN k[1] \ {"search_term"} |-> k[1][f]]
                            ELSE k[1],
                            k[2], [output |-> [max_summary_length |-> k[3]]])] @@ <<>>
JobTable ==
    [k \in RawSet \X Clock \X SummaryLengths |->
        _process_single_job(k[1], k[2], [output |-> [max_summary_length |-> k[3]]])] @@ <<>>
ProcessedOf(raw_job, now, cfg) == JobTable[<<raw_job, now, cfg.output.max_summary_length>>]

\* the jobs of JobTable, and the filter settings that the initial configurations and the
\* overrides can give (a superset of them)
TableJobs == {Val(JobTable[k]) : k \in {x \in DOMAIN JobTable : JobTable[x] # None}}
KeywordAtoms ==
    UNION {{c.filters.exclude_keywords[n] : n \in 1..Len(c.filters.exclude_keywords)} :
              c \in InitialConfigs}
    \cup UNION {{Lower(kws[n]) : n \in 1..Len(kws)} : kws \in CliExcludeKeywords}
TableFilters ==
    [exclude_keywords : UNION {[1..m -> KeywordAtoms] : m \in 0..MaxKeywords},
     exclude_experience_levels : {c.filters.exclude_experience_levels : c \in InitialConfigs},
     salary_minimum : {c.filters.salary_minimum : c \in InitialConfigs}
                      \cup {Some(v) : v \in CliSalaryMin},
     salary_maximum : {c.filters.salary_maximum : c \in InitialConfigs}
                      \cup {Some(v) : v \in CliSalaryMax}]

\* What the call self._should_include_job(job) at line 56 does: "raise", or it returns
\* True ("include") or False ("exclude")
FilterOutcome(job, filters) ==
    IF ShouldIncludeRaises(job, filters) THEN "raise"
    ELSE IF _should_include_job(job, filters) THEN "include"
    ELSE "exclude"
FilterTable == [k \in TableJobs \X TableFilters |-> FilterOutcome(k[1], k[2])] @@ <<>>

(***************************************************************************)
(* process_jobs (job_processor.py 45-69)                                   *)
(***************************************************************************)
\* The statements inside the try block (lines 54-62) for one raw_job.  raised tells that
\* an exception left the block; seen_jobs and processed_jobs are the values afterwards.
\* a variant of TryBlock without the test `job.id not in self.seen_jobs`
TryBlock_NoSeenCheck(seen, processed, raw_job, now, cfg) ==
    Bind(ProcessedOf(raw_job, now, cfg), LAMBDA job :
        IF job = None
        THEN [raised |-> FALSE, seen_jobs |-> seen, processed_jobs |-> processed]
        ELSE
    Bind(FilterTable[<<Val(job), cfg.filters>>], LAMBDA outcome :
        IF outcome = "raise"
        THEN [raised |-> TRUE, seen_jobs |-> seen, processed_jobs |-> processed]
        ELSE IF outcome = "include"
        THEN [raised |-> FALSE,
              seen_jobs |-> seen \cup {Val(job).id},
              processed_jobs |-> Append(processed, Val(job))]
        ELSE [raised |-> FALSE, seen_jobs |-> seen, processed_jobs |-> processed]))

\* a variant of TryBlock that adds the id to seen_jobs before it calls the filter
TryBlock_AddsBeforeFilter(seen, processed, raw_job, now, cfg) ==
    Bind(ProcessedOf(raw_job, now, cfg), LAMBDA job :
        IF job = None
        THEN [raised |-> FALSE, seen_jobs |-> seen, processed_jobs |-> processed]
        ELSE
    Bind(FilterTable[<<Val(job), cfg.filters>>], LAMBDA outcome :
        IF outcome = "raise"
        THEN [raised |-> TRUE, seen_jobs |-> seen \cup {Val(job).id},
              processed_jobs |-> processed]
        ELSE IF outcome = "include" /\ Val(job).id \notin seen
        THEN [raised |-> FALSE,
              seen_jobs |-> seen \cup {Val(job).id},
              processed_jobs |-> Append(processed, Val(job))]
        ELSE [raised |-> FALSE, seen_jobs |-> seen \cup {Val(job).id},
              processed_jobs |-> processed]))

\* a variant of TryBlock that tests `job.id not in self.seen_jobs` before it calls the
\* filter
TryBlock_SeenFirst(seen, processed, raw_job, now, cfg) ==
    Bind(ProcessedOf(raw_job, now, cfg), LAMBDA job :
        IF job = None \/ Val(job).id \in seen
        THEN [raised |-> FALSE, seen_jobs |-> seen, processed_jobs |-> processed]
        ELSE
    Bind(FilterTable[<<Val(job), cfg.filters>>], LAMBDA outcome :
        IF outcome = "raise"
        THEN [raised |-> TRUE, seen_jobs |-> seen, processed_jobs |-> processed]
        ELSE IF outcome = "include"
        THEN [raised |-> FALSE,
              seen_jobs |-> seen \cup {Val(job).id},
              processed_jobs |-> Append(processed, Val(job))]
        ELSE [raised |-> FALSE, seen_jobs |-> seen, processed_jobs |-> processed]))

TryBlock(seen, processed, raw_job, now, cfg) ==
    Bind(ProcessedOf(raw_job, now, cfg), LAMBDA job :
        IF job = None
        THEN [raised |-> FALSE, seen_jobs |-> seen, processed_jobs |-> processed]
        ELSE
    Bind(FilterTable[<<Val(job), cfg.filters>>], LAMBDA outcome :
        IF outcome = "raise"
        THEN [raised |-> TRUE, seen_jobs |-> seen, processed_jobs |-> processed]
        ELSE IF outcome = "include" /\ Val(job).id \notin seen
        THEN [raised |-> FALSE,
              seen_jobs |-> seen \cup {Val(job).id},
              processed_jobs |-> Append(processed, Val(job))]
        ELSE [raised |-> FALSE, seen_jobs |-> seen, processed_jobs |-> processed]))

\* a variant of LoopBody without the except clause
LoopBody_NoExcept(seen, processed, raw_job, now, cfg) ==
    TryBlock(seen, processed, raw_job, now, cfg)

\* a variant of LoopBody that appends the job but does not add its id to seen_jobs
LoopBody_ForgetSeen(seen, processed, raw_job, now, cfg) ==
    Bind(TryBlock(seen, processed, raw_job, now, cfg), LAMBDA t :
        [raised |-> FALSE, seen_jobs |-> seen, processed_jobs |-> t.processed_jobs])

\* a variant of LoopBody that adds the id of every extracted job to seen_jobs, whatever
\* the filter decided
LoopBody_RecordRejected(seen, processed, raw_job, now, cfg) ==
    Bind(TryBlock(seen, processed, raw_job, now, cfg), LAMBDA t :
    Bind(ProcessedOf(raw_job, now, cfg), LAMBDA job :
        [raised |-> FALSE,
         seen_jobs |-> IF job = None THEN t.seen_jobs ELSE t.seen_jobs \cup {Val(job).id},
         processed_jobs |-> t.processed_jobs]))

\* a variant of LoopBody that puts the new job at the front of processed_jobs
LoopBody_Prepend(seen, processed, raw_job, now, cfg) ==
    Bind(TryBlock(seen, processed, raw_job, now, cfg), LAMBDA t :
        [raised |-> FALSE,
         seen_jobs |-> t.seen_jobs,
         processed_jobs |-> SubSeq(t.processed_jobs, Len(processed) + 1,
                                   Len(t.processed_jobs)) \o processed])

\* a variant of LoopBody in which a job is kept only at one of the clock readings
LoopBody_ClockGate(seen, processed, raw_job, now, cfg) ==
    Bind(TryBlock(seen, processed, raw_job, now, cfg), LAMBDA t :
        IF t.raised \/ now # (CHOOSE c \in Clock : TRUE)
        THEN [raised |-> FALSE, seen_jobs |-> seen, processed_jobs |-> processed]
        ELSE t)

\* One iteration of the loop (lines 51-66): the try block, and `except Exception: continue`
LoopBody(seen, processed, raw_job, now, cfg) ==
    Bind(TryBlock(seen, processed, raw_job, now, cfg), LAMBDA t :
        IF t.raised THEN [t EXCEPT !.raised = FALSE] ELSE t)

(***************************************************************************)
(* State                                                                   *)
(***************************************************************************)
VARIABLES
    config,          \* the Config object the processor was constructed with
    seen_jobs,       \* JobProcessor.seen_jobs
    pc,              \* "idle": no call is running; "loop": process_jobs is in its loop;
                     \* "raised": an exception has left process_jobs
    raw_jobs,        \* the argument of the running call
    idx,             \* the number of raw jobs of the running call already handled
    processed_jobs,  \* the local list processed_jobs of the running call
    calls,           \* the number of process_jobs calls made so far
    \* history of the run, read by the properties only
    call_seen,       \* seen_jobs as it was when the running call began
    origin,          \* origin[k]: the position in raw_jobs that processed_jobs[k] came from
    log,             \* log[j]: what the running call observed for raw_jobs[j]
    emitted,         \* the bag of the ids of all jobs emitted so far, by all calls
    rejected,        \* the raw postings that the filter rejected in earlier calls
    at_reset,        \* None, or Some of seen_jobs and calls as they were when the caller
                     \* asked for a reset
    threads,         \* process_jobs calls made by concurrent threads on the one processor:
                     \* run[t] is the frame of the call of thread t (its position, its
                     \* argument raw_jobs, the number of records handled, the local job
                     \* and the local list processed_jobs); lock is the thread that holds
                     \* the callers' lock, 0 if none does
    \* a method applied on its own to inputs drawn from a bounded set
    input,           \* the arguments
    output           \* None before the method has returned, Some(result) after it

vars == <<config, seen_jobs, pc, raw_jobs, idx, processed_jobs, calls,
          call_seen, origin, log, emitted, rejected, at_reset, threads, input, output>>

\* What the loop observes for raw_job: the clock reading, whether extraction gave a job,
\* the id, what the filter did ("include", "exclude", "raise"; "none" when it was not
\* called), and whether the id was absent from the seen-set at that moment.
Observe(seen, raw_job, now, cfg) ==
    Bind(ProcessedOf(raw_job, now, cfg), LAMBDA job :
        IF job = None
        THEN [now |-> now, extracted |-> FALSE, id |-> "", filter |-> "none",
              fresh |-> FALSE]
        ELSE [now |-> now, extracted |-> TRUE, id |-> Val(job).id,
              filter |-> FilterTable[<<Val(job), cfg.filters>>],
              fresh |-> Val(job).id \notin seen])

\* the threads that may call process_jobs at the same time
MaxThreads == 2
Threads == 1..MaxThreads

\* the frame of a thread that has not called process_jobs
NotCalled == [pc |-> "idle", raw_jobs |-> <<>>, idx |-> 0, job |-> None,
              processed_jobs |-> <<>>]

\* JobProcessor.__init__ (lines 40-43): the processor right after construction
Constructed ==
    /\ seen_jobs = {}
    /\ pc = "idle"
    /\ raw_jobs = <<>>
    /\ idx = 0
    /\ processed_jobs = <<>>
    /\ calls = 0
    /\ call_seen = {}
    /\ origin = <<>>
    /\ log = <<>>
    /\ emitted = EmptyBag
    /\ rejected = {}
    /\ at_reset = None
    /\ threads = [lock |-> 0, run |-> [t \in Threads |-> NotCalled]]

Init ==
    /\ config \in InitialConfigs
    /\ Constructed
    /\ input = None
    /\ output = None

\* main.py 184-185: `if salary_min: agent.config.filters.salary_minimum = salary_min`
SetSalaryMinimum ==
    /\ pc = "idle"
    /\ \E salary_min \in CliSalaryMin :
          config' = [config EXCEPT !.filters.salary_minimum = Some(salary_min)]
    /\ UNCHANGED <<seen_jobs, pc, raw_jobs, idx, processed_jobs, calls,
                   call_seen, origin, log, emitted, rejected, at_reset, threads, input, output>>

\* main.py 187-188: `if salary_max: agent.config.filters.salary_maximum = salary_max`
SetSalaryMaximum ==
    /\ pc = "idle"
    /\ \E salary_max \in CliSalaryMax :
          config' = [config EXCEPT !.filters.salary_maximum = Some(salary_max)]
    /\ UNCHANGED <<seen_jobs, pc, raw_jobs, idx, processed_jobs, calls,
                   call_seen, origin, log, emitted, rejected, at_reset, threads, input, output>>

\* main.py 190-191: exclude_keywords.extend([kw.lower() for kw in exclude_keywords])
ExtendExcludeKeywords ==
    /\ pc = "idle"
    /\ \E exclude_keywords \in CliExcludeKeywords :
          /\ Len(config.filters.exclude_keywords) + Len(exclude_keywords) <= MaxKeywords
          /\ config' = [config EXCEPT !.filters.exclude_keywords =
                            @ \o [n \in 1..Len(exclude_keywords) |-> Lower(exclude_keywords[n])]]
    /\ UNCHANGED <<seen_jobs, pc, raw_jobs, idx, processed_jobs, calls,
                   call_seen, origin, log, emitted, rejected, at_reset, threads, input, output>>

\* process_jobs is called (lines 45-49)
Call ==
    /\ pc = "idle"
    /\ calls < MaxCalls
    /\ \E batch \in Batches : raw_jobs' = batch
    /\ pc' = "loop"
    /\ idx' = 0
    /\ processed_jobs' = <<>>
    /\ calls' = calls + 1
    /\ call_seen' = seen_jobs
    /\ origin' = <<>>
    /\ log' = <<>>
    /\ UNCHANGED <<config, seen_jobs, emitted, rejected, at_reset, threads, input, output>>

\* one iteration of `for raw_job in raw_jobs` (lines 51-66)
Iterate ==
    /\ pc = "loop"
    /\ idx < Len(raw_jobs)
    /\ \E now \in Clock :
       \E r \in {LoopBody(seen_jobs, processed_jobs, raw_jobs[idx + 1], now, config)} :
          /\ seen_jobs' = r.seen_jobs
          /\ processed_jobs' = r.processed_jobs
          /\ pc' = IF r.raised THEN "raised" ELSE "loop"
          /\ log' = Append(log, Observe(seen_jobs, raw_jobs[idx + 1], now, config))
          /\ origin' = origin \o [n \in 1..(Len(r.processed_jobs) - Len(processed_jobs)) |->
                                    idx + 1]
          /\ emitted' = emitted (+) SetToBag({r.processed_jobs[n].id :
                                n \in (Len(processed_jobs) + 1)..Len(r.processed_jobs)})
    /\ idx' = idx + 1
    /\ UNCHANGED <<config, raw_jobs, calls, call_seen, rejected, at_reset, threads, input, output>>

\* a variant of Return in which the processor forgets what it has seen when a call ends
Return_ForgetsSeen ==
    /\ pc = "loop"
    /\ idx = Len(raw_jobs)
    /\ pc' = "idle"
    /\ raw_jobs' = <<>>
    /\ idx' = 0
    /\ processed_jobs' = <<>>
    /\ origin' = <<>>
    /\ log' = <<>>
    /\ call_seen' = {}
    /\ seen_jobs' = {}
    /\ rejected' = rejected
    /\ UNCHANGED <<config, calls, emitted, at_reset, threads, input, output>>

\* process_jobs returns processed_jobs (lines 68-69)
Return ==
    /\ pc = "loop"
    /\ idx = Len(raw_jobs)
    /\ pc' = "idle"
    /\ raw_jobs' = <<>>
    /\ idx' = 0
    /\ processed_jobs' = <<>>
    /\ origin' = <<>>
    /\ log' = <<>>
    /\ call_seen' = {}
    /\ rejected' = rejected \cup {raw_jobs[j] : j \in {n \in 1..Len(raw_jobs) :
                                                      log[n].filter = "exclude"}}
    /\ UNCHANGED <<config, seen_jobs, calls, emitted, at_reset, threads, input, output>>

\* get_duplicate_stats (lines 350-355)
get_duplicate_stats ==
    [unique_jobs_seen |-> Cardinality(seen_jobs), total_processed |-> Cardinality(seen_jobs)]

Next ==
    \/ SetSalaryMinimum
    \/ SetSalaryMaximum
    \/ ExtendExcludeKeywords
    \/ Call
    \/ Iterate
    \/ Return

Spec == Init /\ [][Next]_vars

(***************************************************************************)
(* A caller that asks the processor to forget what it has seen.  Class     *)
(* JobProcessor (lines 37-355) defines __init__(config), process_jobs, the *)
(* private helpers and get_duplicate_stats: processor.reset() raises       *)
(* AttributeError and JobProcessor(config, seen) raises TypeError, and     *)
(* neither changes the processor.                                          *)
(***************************************************************************)
Reset ==
    /\ pc = "idle"
    /\ at_reset = None
    /\ at_reset' = Some([seen_jobs |-> seen_jobs, calls |-> calls])
    /\ UNCHANGED <<config, seen_jobs, pc, raw_jobs, idx, processed_jobs, calls,
                   call_seen, origin, log, emitted, rejected, threads, input, output>>

SpecReset == Init /\ [][Next \/ Reset]_vars

(***************************************************************************)
(* process_jobs([R]) on fresh processors: input is the posting R, output   *)
(* for each run made so far its clock reading and the list it returned.    *)
(***************************************************************************)
MaxRuns == 2

InitFresh ==
    /\ config \in InitialConfigs
    /\ Constructed
    /\ input \in RawSet
    /\ output = <<>>

\* JobProcessor(config).process_jobs([input]): the loop runs once on an empty seen-set
RunFresh ==
    /\ Len(output) < MaxRuns
    /\ \E now \in Clock :
          output' = Append(output,
                [now |-> now,
                 jobs |-> LoopBody({}, <<>>, input, now, config).processed_jobs])
    /\ UNCHANGED <<config, seen_jobs, pc, raw_jobs, idx, processed_jobs, calls,
                   call_seen, origin, log, emitted, rejected, at_reset, threads, input>>

SpecFresh == InitFresh /\ [][RunFresh]_vars

(***************************************************************************)
(* _should_include_job on its own: input is [job, cfg], output what the    *)
(* call did ("include": returned True, "exclude": returned False, "raise"). *)
(***************************************************************************)
FilterJobs ==
    [title : {"Senior Engineer", "Engineering INTERN"},
     description : {"Join our team.", "An Entry Level role."},
     salary : {<<None, None>>, <<Some(30000), Some(40000)>>, <<Some(120000), Some(150000)>>},
     is_remote : BOOLEAN]
FilterConfigs ==
    [exclude_keywords : {<<>>, <<"intern">>},
     exclude_experience_levels : {<<>>, <<"entry level">>},
     salary_minimum : {None, Some(0), Some(100000)},
     salary_maximum : {Some(45000), Some(1000000)}]

InitFilter ==
    /\ config \in InitialConfigs
    /\ Constructed
    /\ \E j \in FilterJobs, cfg \in FilterConfigs :
          input = [job |-> [title |-> j.title, description |-> j.description,
                            salary_min |-> j.salary[1], salary_max |-> j.salary[2],
                            is_remote |-> j.is_remote],
                   cfg |-> cfg]
    /\ output = None

ApplyFilter ==
    /\ output = None
    /\ output' = Some(FilterOutcome(input.job, input.cfg))
    /\ UNCHANGED <<config, seen_jobs, pc, raw_jobs, idx, processed_jobs, calls,
                   call_seen, origin, log, emitted, rejected, at_reset, threads, input>>

SpecFilter == InitFilter /\ [][ApplyFilter]_vars

(***************************************************************************)
(* _verify_remote_status on its own: input is [title, description,         *)
(* location].                                                              *)
(***************************************************************************)
RemoteInputs ==
    [title : {"Remote Engineer", "Telecommute Analyst", "Virtual Assistant",
              "Police Officer", "Engineer"},
     description : {"",
                    "Work from home (WFH) with a distributed team, from anywhere.",
                    "Hybrid role, on-site or in-person when needed.",
                    "Location independent. No relocation, no visa sponsorship.",
                    "Local candidates only, short commute."},
     location : {"", "Anywhere", "New York Office", "REMOTE"}]

InitRemote ==
    /\ config \in InitialConfigs
    /\ Constructed
    /\ input \in RemoteInputs
    /\ output = None

ApplyRemote ==
    /\ output = None
    /\ output' = Some(_verify_remote_status(input.title, input.description, input.location))
    /\ UNCHANGED <<config, seen_jobs, pc, raw_jobs, idx, processed_jobs, calls,
                   call_seen, origin, log, emitted, rejected, at_reset, threads, input>>

SpecRemote == InitRemote /\ [][ApplyRemote]_vars

\* the variables of the processor and of its history, which a method applied on its own
\* leaves as they are
processor == <<seen_jobs, pc, raw_jobs, idx, processed_jobs, calls,
               call_seen, origin, log, emitted, rejected, at_reset, threads>>

(***************************************************************************)
(* _calculate_relevance on its own: input is [raw_job, title,              *)
(* description], output [raised |-> TRUE] for a ZeroDivisionError and      *)
(* [raised |-> FALSE, score |-> the score in units of 1/ScoreScale] else.  *)
(***************************************************************************)
RelevanceSearchTerms ==
    {"", " ", "engineer", "Software Engineer", "data scientist",
     "remote python developer", "senior staff software engineer python aws"}
RelevanceInputs ==
    [raw_job : {[title |-> "t"]} \cup {[title |-> "t", search_term |-> st] :
                                          st \in RelevanceSearchTerms},
     title : {"", "Senior Software Engineer", "ENGINEER", "Data Scientist - Remote",
              "Software Engineer / Software Engineer II"},
     description : {"", "Remote python role for a software engineer.",
                    "We need a data scientist."}]

InitRelevance ==
    /\ config \in InitialConfigs
    /\ Constructed
    /\ input \in RelevanceInputs
    /\ output = None

ApplyRelevance ==
    /\ output = None
    /\ output' = Some(IF CalculateRelevanceRaises(input.raw_job)
                      THEN [raised |-> TRUE]
                      ELSE [raised |-> FALSE,
                            score |-> _calculate_relevance(input.raw_job, input.title,
                                                           input.description)])
    /\ UNCHANGED <<config, processor, input>>

SpecRelevance == InitRelevance /\ [][ApplyRelevance]_vars

(***************************************************************************)
(* _parse_salary on its own: input is the text, output the pair            *)
(* <<salary_min, salary_max>>.                                             *)
(***************************************************************************)
SalaryTexts ==
    {"", "Competitive salary", "Paid weekly, 40 hours",
     "$120,000 - $150,000", "$150,000 - $120,000", "$100,000-150,000",
     "100,000 - 150,000 USD", "$95,000 per year", "$95,000.00 annually",
     "80k - 120k", "120k - 80k", "Pay 50k to 60k", "$90,000 to 110,000",
     "$5,000 - $8,000", "$5 - $10 per hour, $60,000 - $70,000 per year",
     "$2,000,000 per year", "$1,000,000 - $1,000,000", "$10,000 - $9,999",
     "$9,000 per year, or $50,000 annually", "$50 - $60k", "$100k - $150k",
     "$85,000.50 - $95,000.75", "$30,000 - $40,000 per year.", "$10,000/year",
     "$5 - $9 per hour, or 80k - 120k", "80k - 120k, or $50,000 per year",
     "$8,000 - 9,000 or 20,000 - 30,000 USD"}

InitSalary ==
    /\ config \in InitialConfigs
    /\ Constructed
    /\ input \in SalaryTexts
    /\ output = None

ApplySalary ==
    /\ output = None
    /\ output' = Some(_parse_salary(input))
    /\ UNCHANGED <<config, processor, input>>

SpecSalary == InitSalary /\ [][ApplySalary]_vars

(***************************************************************************)
(* The id of a raw posting (job_processor.py 75-82) on its own: input is a *)
(* pair of raw postings, output the pair of their ids.                     *)
(***************************************************************************)
IdPostings ==
    [title : {"Data Scientist", "  data   SCIENTIST ", "Senior Engineer"},
     company : {"DataCorp", " datacorp"},
     url : {"", "https://example.com/careers",
            "https://greenhouse.io/jobs/998877",
            "http://greenhouse.io/jobs/998877?ref=feed",
            "https://greenhouse.io/view?id=998877",
            "https://lever.co/jobs/998877"}]

\* lines 75-76 and 82: the id of the cleaned title and company and of the URL as given
IdOf(raw_job) ==
    _generate_job_id(_clean_text(raw_job.title), _clean_text(raw_job.company), raw_job.url)

InitId ==
    /\ config \in InitialConfigs
    /\ Constructed
    /\ input \in IdPostings \X IdPostings
    /\ output = None

ApplyId ==
    /\ output = None
    /\ output' = Some(<<IdOf(input[1]), IdOf(input[2])>>)
    /\ UNCHANGED <<config, processor, input>>

SpecId == InitId /\ [][ApplyId]_vars

(***************************************************************************)
(* _process_single_job on its own: input is the raw posting, output the    *)
(* clock reading and the result (None or Some(ProcessedJob)).              *)
(***************************************************************************)
FullPosting ==
    [title |-> "Remote Data Analyst", company |-> "Acme",
     url |-> "https://acme.io/jobs/4711", location |-> "Remote",
     description |-> "Remote role. Must have SQL.",
     snippet |-> "Remote job, 80k - 120k",
     salary |-> "$90,000 - $110,000", source_site |-> "acme.io",
     search_term |-> "data analyst", posting_date |-> "2024-01-20",
     found_date |-> "2024-01-21T10:00:00"]

\* the postings with some of the keys of FullPosting, and the posting with an empty title
ExtractPostings ==
    {[k \in S |-> FullPosting[k]] : S \in SUBSET (DOMAIN FullPosting)}
        \cup {[FullPosting EXCEPT !.title = ""]}

\* the configuration of a settings file without filters and output sections
InitExtract ==
    /\ config \in {c \in InitialConfigs :
                      /\ c.filters.salary_minimum = Some(DefaultSalaryMinimum)
                      /\ c.output.max_summary_length = DefaultMaxSummaryLength}
    /\ Constructed
    /\ input \in ExtractPostings
    /\ output = None

ApplyExtract ==
    /\ output = None
    /\ \E now \in Clock :
          output' = Some([now |-> now, job |-> _process_single_job(input, now, config)])
    /\ UNCHANGED <<config, processor, input>>

SpecExtract == InitExtract /\ [][ApplyExtract]_vars

(***************************************************************************)
(* The try block of process_jobs (lines 54-62) on its own: input is        *)
(* [seen, raw_job, now], the seen-set before the record and the record;    *)
(* output is what TryBlock gives with an empty list.                       *)
(***************************************************************************)
CatalogueIds == {job.id : job \in TableJobs}

InitTry ==
    /\ config \in InitialConfigs
    /\ Constructed
    /\ input \in [seen : SUBSET CatalogueIds, raw_job : RawSet, now : Clock]
    /\ output = None

ApplyTry ==
    /\ output = None
    /\ output' = Some(TryBlock(input.seen, <<>>, input.raw_job, input.now, config))
    /\ UNCHANGED <<config, processor, input>>

SpecTry == InitTry /\ [][ApplyTry]_vars

(***************************************************************************)
(* _generate_job_id on its own: input is [title, company, url], output the *)
(* id.                                                                     *)
(***************************************************************************)
UrlPostings ==
    [title : {"Data Scientist", "Senior Engineer", ""},
     company : {"DataCorp"},
     url : {"", "https://example.com/careers",
            "https://boards.io/view?posting_id=7&jobId=8",
            "https://boards.io/view?job_id=15&id=3",
            "https://boards.io/view?posting_id=7",
            "https://boards.io/view?jobId=8&jobId=9",
            "https://boards.io/jobs/12345/apply?id=",
            "https://boards.io/jobs/12345/senior-data-engineer",
            "https://boards.io/senior-data-engineer/12345",
            "https://boards.io/jobs/abcdefghij",
            "https://boards.io/jobs/abcdefghijk",
            "https://boards.io/view?ref=feed&id=3#top",
            "https://boards.io/jobs/12345/?utm=x",
            "boards.io/jobs/12345"}]

InitUrl ==
    /\ config \in InitialConfigs
    /\ Constructed
    /\ input \in UrlPostings
    /\ output = None

ApplyUrl ==
    /\ output = None
    /\ output' = Some(_generate_job_id(input.title, input.company, input.url))
    /\ UNCHANGED <<config, processor, input>>

SpecUrl == InitUrl /\ [][ApplyUrl]_vars

(***************************************************************************)
(* _clean_text on its own: input is the text, output the cleaned text.     *)
(***************************************************************************)
CleanTexts ==
    {"", " ", "Data Scientist", "  Senior   Engineer ", "Line one\nline two\t end",
     "Tom &amp; Jerry", "R&D engineer", "AT&T; Bell", "&amp;", "&nbsp;Remote",
     "<b>Intern</b>", "<p>Build APIs</p><p>Ship them</p>", "a < b and c > d",
     "2 <3 and 5> 4", "<>", "Fish &amp; <i>chips</i>", "Salary &gt; 50k",
     "&lt;b&gt;bold&lt;/b&gt;", "Engineer<br/>", "<a href='x'>Apply here</a> now",
     "C++ &#38; C#", "&amp;amp;"}

InitClean ==
    /\ config \in InitialConfigs
    /\ Constructed
    /\ input \in CleanTexts
    /\ output = None

ApplyClean ==
    /\ output = None
    /\ output' = Some(_clean_text(input))
    /\ UNCHANGED <<config, processor, input>>

SpecClean == InitClean /\ [][ApplyClean]_vars

(***************************************************************************)
(* _generate_summary on its own: input is the description, output the      *)
(* summary under config.output.max_summary_length.                         *)
(***************************************************************************)
SummaryDescriptions ==
    {"", "Short text.", "Apply now! Great pay? Yes.",
     "We build data pipelines for retail clients.",
     "Looking for an experienced data analyst to join our growing team.",
     "Looking for an experienced data engineer to join our growing team.",
     "Supercalifragilisticexpialidocious-engineering-role wanted.",
     "We are a startup. You will join the platform team in this role. Benefits included.",
     "Acme makes rockets for coyotes. The position requires strong skills in Python.",
     "Remote role. Must have SQL.",
     "This opportunity is fully remote... Five years of experience are required!",
     "Our client is hiring a nurse for night shifts. Housing is provided by the client.",
     "Seeking a driver",
     "The team ships weekly; the role owns billing; the position reports to the CTO",
     "Great company with great people and perks. Responsible for payroll and reports.",
     "A. B. C. D. E. The sixth sentence has the experience keyword in it.",
     "Qualifications: a degree in statistics or a related field, and curiosity.",
     "Work on search ranking with a small group of engineers?! Yes, really, join us.",
     "0123456789012345678901234567890123456789 is the reference number of this role.",
     "Customer support agents answer tickets and calls from Monday to Friday."}

InitSummary ==
    /\ config \in InitialConfigs
    /\ Constructed
    /\ input \in SummaryDescriptions
    /\ output = None

ApplySummary ==
    /\ output = None
    /\ output' = Some(_generate_summary(input, config.output.max_summary_length))
    /\ UNCHANGED <<config, processor, input>>

SpecSummary == InitSummary /\ [][ApplySummary]_vars

(***************************************************************************)
(* process_jobs called by several threads on one processor.  The code      *)
(* takes no lock (lines 45-69), so a thread can be suspended between any   *)
(* two steps that touch self.seen_jobs: the test of line 57, the append of *)
(* line 58 and the add of line 59 are steps of their own; lines 54-56 read *)
(* nothing that another call writes and are one step.  input.locking tells *)
(* whether the callers wrap each call in a lock of their own.              *)
(***************************************************************************)
ThreadBatch == 1
ThreadBatches == UNION {[1..n -> RawSet] : n \in 1..ThreadBatch}

InitThreads ==
    /\ config \in InitialConfigs
    /\ Constructed
    /\ input \in [locking : BOOLEAN]
    /\ output = None

\* thread t calls process_jobs(batch) (lines 45-49), after taking the callers' lock if
\* the callers use one
Enter(t) ==
    /\ threads.run[t].pc = "idle"
    /\ input.locking => threads.lock = 0
    /\ \E batch \in ThreadBatches :
          threads' = [lock |-> IF input.locking THEN t ELSE 0,
                      run |-> [threads.run EXCEPT ![t] =
                                  [NotCalled EXCEPT !.pc = "next", !.raw_jobs = batch]]]
    /\ UNCHANGED <<config, seen_jobs, pc, raw_jobs, idx, processed_jobs, calls,
                   call_seen, origin, log, emitted, rejected, at_reset, input, output>>

\* lines 51-56 for the next record of thread t: extraction and the filter; the record is
\* dropped when extraction gives None, when the filter answers False and when it raises
\* (lines 64-66)
ExtractAndFilter(t) ==
    /\ threads.run[t].pc = "next"
    /\ threads.run[t].idx < Len(threads.run[t].raw_jobs)
    /\ \E now \in Clock :
       \E job \in {ProcessedOf(threads.run[t].raw_jobs[threads.run[t].idx + 1], now, config)} :
          threads' = [threads EXCEPT !.run[t] =
              IF job # None /\ FilterTable[<<Val(job), config.filters>>] = "include"
              THEN [@ EXCEPT !.pc = "test", !.job = job]
              ELSE [@ EXCEPT !.idx = @ + 1]]
    /\ UNCHANGED <<config, seen_jobs, pc, raw_jobs, idx, processed_jobs, calls,
                   call_seen, origin, log, emitted, rejected, at_reset, input, output>>

\* line 57: `if job.id not in self.seen_jobs`
TestSeen(t) ==
    /\ threads.run[t].pc = "test"
    /\ threads' = [threads EXCEPT !.run[t] =
          IF Val(@.job).id \notin seen_jobs
          THEN [@ EXCEPT !.pc = "append"]
          ELSE [@ EXCEPT !.pc = "next", !.idx = @ + 1, !.job = None]]
    /\ UNCHANGED <<config, seen_jobs, pc, raw_jobs, idx, processed_jobs, calls,
                   call_seen, origin, log, emitted, rejected, at_reset, input, output>>

\* line 58: processed_jobs.append(job)
AppendJob(t) ==
    /\ threads.run[t].pc = "append"
    /\ threads' = [threads EXCEPT !.run[t] =
          [@ EXCEPT !.pc = "add", !.processed_jobs = Append(@, Val(threads.run[t].job))]]
    /\ emitted' = emitted (+) SetToBag({Val(threads.run[t].job).id})
    /\ UNCHANGED <<config, seen_jobs, pc, raw_jobs, idx, processed_jobs, calls,
                   call_seen, origin, log, rejected, at_reset, input, output>>

\* a variant of AddSeen that leaves seen_jobs as it is
AddSeen_Skipped(t) ==
    /\ threads.run[t].pc = "add"
    /\ threads' = [threads EXCEPT !.run[t] =
          [@ EXCEPT !.pc = "next", !.idx = @ + 1, !.job = None]]
    /\ UNCHANGED <<config, seen_jobs, pc, raw_jobs, idx, processed_jobs, calls,
                   call_seen, origin, log, emitted, rejected, at_reset, input, output>>

\* line 59: self.seen_jobs.add(job.id)
AddSeen(t) ==
    /\ threads.run[t].pc = "add"
    /\ seen_jobs' = seen_jobs \cup {Val(threads.run[t].job).id}
    /\ threads' = [threads EXCEPT !.run[t] =
          [@ EXCEPT !.pc = "next", !.idx = @ + 1, !.job = None]]
    /\ UNCHANGED <<config, pc, raw_jobs, idx, processed_jobs, calls,
                   call_seen, origin, log, emitted, rejected, at_reset, input, output>>

\* lines 68-69: the call of thread t returns its list; the caller releases its lock
Leave(t) ==
    /\ threads.run[t].pc = "next"
    /\ threads.run[t].idx = Len(threads.run[t].raw_jobs)
    /\ threads' = [lock |-> 0,
                   run |-> [threads.run EXCEPT ![t] = [@ EXCEPT !.pc = "returned"]]]
    /\ UNCHANGED <<config, seen_jobs, pc, raw_jobs, idx, processed_jobs, calls,
                   call_seen, origin, log, emitted, rejected, at_reset, input, output>>

NextThreads ==
    \E t \in Threads :
        \/ Enter(t)
        \/ ExtractAndFilter(t)
        \/ TestSeen(t)
        \/ AppendJob(t)
        \/ AddSeen(t)
        \/ Leave(t)

SpecThreads == InitThreads /\ [][NextThreads]_vars

(***************************************************************************)
(* Properties                                                              *)
(***************************************************************************)
\* raw_jobs[j] gave a job of the list being built
Emits(j) == \E k \in 1..Len(origin) : origin[k] = j

\* the loop of the running call has handled every record: the call is about to return
AtReturn == pc = "loop" /\ idx = Len(raw_jobs)

\* C1: over all the calls made on one processor no two emitted jobs have the same id,
\* in one call or in different calls, and a posting whose id is already in the seen-set
\* when it is reached gives no job.
C1_NoDuplicateIds ==
    /\ \A id \in BagToSet(emitted) : CopiesIn(id, emitted) = 1
    /\ \A k1, k2 \in 1..Len(processed_jobs) :
          processed_jobs[k1].id = processed_jobs[k2].id => k1 = k2
    /\ \A j \in 1..Len(log) : log[j].extracted /\ ~log[j].fresh => ~Emits(j)

\* a second call has dropped a posting that passes the filter because an earlier call
\* had emitted its id
C1_Witness ==
    /\ calls = 2
    /\ AtReturn
    /\ \E j \in 1..Len(log) :
          log[j].filter = "include" /\ log[j].id \in call_seen /\ ~Emits(j)

\* C2: a posting that is extracted, passes the filter and whose id is not in the seen-set
\* when it is reached is in the list of its call, and its id is in the seen-set from then
\* on, in particular when the call returns.
C2_AcceptableIsEmitted ==
    \A j \in 1..Len(log) :
        log[j].extracted /\ log[j].filter = "include" /\ log[j].fresh
        => /\ \E k \in 1..Len(processed_jobs) :
                 origin[k] = j /\ processed_jobs[k].id = log[j].id
           /\ log[j].id \in seen_jobs

C2_Witness ==
    /\ AtReturn
    /\ Len(raw_jobs) = 2
    /\ log[1].extracted /\ log[1].filter = "include" /\ log[1].fresh
    /\ log[1].id \in seen_jobs

\* C3 (as the code has it): the seen-set of a running call is what it was when the call
\* began plus the ids of the postings that passed the filter, so a rejected posting adds
\* nothing; a posting rejected in an earlier call is extracted and filtered again, and
\* it is emitted exactly when it passes the filter now and its id is not in the seen-set.
C3_RejectedEvaluatedAgain ==
    pc = "loop" =>
        /\ seen_jobs = call_seen \cup
               {log[j].id : j \in {n \in 1..Len(log) : log[n].filter = "include"}}
        /\ \A j \in 1..Len(log) :
              raw_jobs[j] \in rejected
              => /\ log[j].extracted
                 /\ log[j].filter # "none"
                 /\ Emits(j) <=> (log[j].filter = "include" /\ log[j].fresh)

\* a posting that an earlier call rejected is emitted after the filters were changed
C3_Witness ==
    /\ AtReturn
    /\ \E j \in 1..Len(log) :
          /\ raw_jobs[j] \in rejected
          /\ log[j].fresh
          /\ log[j].filter = "include"
          /\ Emits(j)

\* C3 as stated: a posting rejected in an earlier call is emitted when it is resubmitted
\* and passes the filters then in force (the first time the call meets it).
C3_AsStated ==
    \A j \in 1..Len(log) :
        /\ raw_jobs[j] \in rejected
        /\ log[j].filter = "include"
        /\ \A i \in 1..(j - 1) : raw_jobs[i] # raw_jobs[j]
        => Emits(j)

\* C4: seen_jobs is the set of the ids of the jobs emitted so far, get_duplicate_stats
\* reports how many jobs were emitted so far, and seen_jobs never loses an element.
C4_SeenIsEmitted ==
    /\ [](/\ seen_jobs = BagToSet(emitted)
          /\ get_duplicate_stats.unique_jobs_seen = BagCardinality(emitted)
          /\ get_duplicate_stats.total_processed = BagCardinality(emitted))
    /\ [][seen_jobs \subseteq seen_jobs']_vars

\* two calls have returned, jobs were emitted and a posting was rejected
C4_Witness ==
    /\ calls = 2
    /\ pc = "idle"
    /\ BagCardinality(emitted) >= 2
    /\ get_duplicate_stats.unique_jobs_seen = BagCardinality(emitted)
    /\ rejected # {}

\* extraction, scoring or filtering of raw_jobs[j] threw
Bad(j) == ~log[j].extracted \/ log[j].filter = "raise"

\* the loop run from (seen, processed) over the records at the positions js only, with
\* the clock readings they had
RECURSIVE Replay(_, _, _)
Replay(seen, processed, js) ==
    IF js = <<>> THEN [seen_jobs |-> seen, processed_jobs |-> processed]
    ELSE Bind(LoopBody(seen, processed, raw_jobs[Head(js)], log[Head(js)].now, config),
              LAMBDA r : Replay(r.seen_jobs, r.processed_jobs, Tail(js)))

\* C5: no exception leaves process_jobs; a record that threw gives no job, and the
\* seen-set and the list are what the call would have built from the other records alone.
C5_BadRecordSkipped ==
    /\ pc # "raised"
    /\ pc = "loop" =>
          /\ \A j \in 1..Len(log) : Bad(j) => ~Emits(j)
          /\ Replay(call_seen, <<>>,
                    SelectSeq([n \in 1..Len(log) |-> n], LAMBDA n : ~Bad(n)))
                = [seen_jobs |-> seen_jobs, processed_jobs |-> processed_jobs]

\* a batch whose first record threw and whose second record was emitted
C5_Witness ==
    /\ AtReturn
    /\ Len(raw_jobs) = 2
    /\ Bad(1)
    /\ Emits(2)
    /\ seen_jobs = call_seen \cup {log[2].id}

\* C6: the list of a call follows the order of the input: its k-th job is the job
\* extracted from raw_jobs[origin[k]] with origin increasing, and no earlier record of the
\* batch with the same id passed the filter.
C6_OrderPreserving ==
    /\ Len(origin) = Len(processed_jobs)
    /\ \A k1, k2 \in 1..Len(origin) : k1 < k2 => origin[k1] < origin[k2]
    /\ \A k \in 1..Len(origin) :
          /\ origin[k] \in 1..Len(log)
          /\ log[origin[k]].extracted
          /\ processed_jobs[k] =
                Val(ProcessedOf(raw_jobs[origin[k]], log[origin[k]].now, config))
          /\ \A i \in 1..(origin[k] - 1) :
                ~(log[i].id = processed_jobs[k].id /\ log[i].filter = "include")

\* two records with one id: the first is rejected by the filter, the second is emitted
C6_Witness ==
    /\ AtReturn
    /\ Len(raw_jobs) = 2
    /\ log[1].id = log[2].id
    /\ log[1].filter = "exclude"
    /\ Emits(2)
    /\ processed_jobs[1].id = log[2].id

\* C7: two runs of process_jobs([R]) on fresh processors with one configuration both
\* return nothing, or both return one job, with the same id, relevance_score and is_remote.
C7_Deterministic ==
    \A a, b \in 1..Len(output) :
        \/ output[a].jobs = <<>> /\ output[b].jobs = <<>>
        \/ /\ Len(output[a].jobs) = 1
           /\ Len(output[b].jobs) = 1
           /\ output[a].jobs[1].id = output[b].jobs[1].id
           /\ output[a].jobs[1].relevance_score = output[b].jobs[1].relevance_score
           /\ output[a].jobs[1].is_remote = output[b].jobs[1].is_remote

\* two runs at different clock readings gave a job each, and the jobs differ in found_date
C7_Witness ==
    /\ Len(output) = 2
    /\ output[1].now # output[2].now
    /\ Len(output[1].jobs) = 1
    /\ Len(output[2].jobs) = 1
    /\ output[1].jobs[1].found_date # output[2].jobs[1].found_date

\* the four rules for a job and filter settings, said from the fields: remote, no
\* excluded keyword and no excluded level in the lowercased title and description, a
\* salary band that overlaps the configured range when both ends were parsed; and the
\* title, description and location do not hold a positive indicator with a negative one
SatisfiesRules(job, filters) ==
    /\ job.is_remote
    /\ \A n \in 1..Len(filters.exclude_keywords) :
          ~Contains(Lower(job.title \o " " \o job.description), filters.exclude_keywords[n])
    /\ \A n \in 1..Len(filters.exclude_experience_levels) :
          ~Contains(Lower(job.title \o " " \o job.description),
                    filters.exclude_experience_levels[n])
    /\ job.salary_min # None /\ job.salary_max # None
       => /\ filters.salary_minimum # None
          /\ filters.salary_maximum # None
          /\ Val(job.salary_max) >= Val(filters.salary_minimum)
          /\ Val(job.salary_min) <= Val(filters.salary_maximum)
    /\ ~(/\ \E n \in 1..Len(remote_indicators) :
               Contains(Lower(job.title \o " " \o job.description \o " " \o job.location),
                        remote_indicators[n])
         /\ \E n \in 1..Len(non_remote_indicators) :
               Contains(Lower(job.title \o " " \o job.description \o " " \o job.location),
                        non_remote_indicators[n]))

RulesTable == [k \in TableJobs \X TableFilters |-> SatisfiesRules(k[1], k[2])] @@ <<>>

\* C8: every job in the list of a call satisfies the four rules under the configuration
\* of the processor, and holds no positive remote indicator together with a negative one.
C8_EmittedSatisfyRules ==
    \A k \in 1..Len(processed_jobs) : RulesTable[<<processed_jobs[k], config.filters>>]

\* a job with a parsed salary was emitted, and another record of the batch, with a
\* positive and a negative indicator, was not
C8_Witness ==
    /\ AtReturn
    /\ \E k \in 1..Len(processed_jobs) : processed_jobs[k].salary_min # None
    /\ \E j \in 1..Len(log) :
          /\ log[j].extracted
          /\ ~Emits(j)
          /\ log[j].filter = "exclude"
          /\ Contains(Lower(Val(ProcessedOf(raw_jobs[j], log[j].now, config)).description),
                      "hybrid")
          /\ Contains(Lower(Val(ProcessedOf(raw_jobs[j], log[j].now, config)).description),
                      "remote")

\* the rules of the filter for the job and the settings the filter was applied to
KeywordRuleFails ==
    \E n \in 1..Len(input.cfg.exclude_keywords) :
        Contains(Lower(input.job.title \o " " \o input.job.description),
                 input.cfg.exclude_keywords[n])
LevelRuleFails ==
    \E n \in 1..Len(input.cfg.exclude_experience_levels) :
        Contains(Lower(input.job.title \o " " \o input.job.description),
                 input.cfg.exclude_experience_levels[n])
SalaryPresent == input.job.salary_min # None /\ input.job.salary_max # None
SalaryRuleFails ==
    /\ SalaryPresent
    /\ input.cfg.salary_minimum # None
    /\ \/ Val(input.job.salary_max) < Val(input.cfg.salary_minimum)
       \/ Val(input.job.salary_min) > Val(input.cfg.salary_maximum)
RemoteRuleFails == ~input.job.is_remote

\* C9: when the filter returns, it accepts exactly when none of the four rules fails; a
\* job with an excluded keyword is rejected whatever its salary and remote status, and a
\* job without a parsed salary is rejected only when another rule fails.
C9_FilterDecision ==
    output # None =>
        /\ Val(output) # "raise"
           => (Val(output) = "include"
               <=> ~(KeywordRuleFails \/ LevelRuleFails \/ SalaryRuleFails \/ RemoteRuleFails))
        /\ KeywordRuleFails => Val(output) = "exclude"
        /\ ~SalaryPresent
           => (Val(output) = "include"
               <=> ~(KeywordRuleFails \/ LevelRuleFails \/ RemoteRuleFails))

\* a remote job without a parsed salary is accepted although a minimum salary is
\* configured
C9_Witness ==
    /\ output = Some("include")
    /\ ~SalaryPresent
    /\ input.cfg.salary_minimum = Some(100000)
    /\ input.cfg.exclude_keywords # <<>>

\* the indicators in the lowercased title, description and location of the input
HasPositive ==
    \E n \in 1..Len(remote_indicators) :
        Contains(Lower(input.title \o " " \o input.description \o " " \o input.location),
                 remote_indicators[n])
HasNegative ==
    \E n \in 1..Len(non_remote_indicators) :
        Contains(Lower(input.title \o " " \o input.description \o " " \o input.location),
                 non_remote_indicators[n])

\* C10: the remote verdict is true exactly when the lowercased title, description and
\* location hold a positive indicator and no negative one; with a negative indicator it
\* is false however many positive ones there are.
C10_RemoteVerdict ==
    output # None =>
        /\ Val(output) <=> (HasPositive /\ ~HasNegative)
        /\ HasNegative => Val(output) = FALSE

\* a text with several positive indicators and a negative one gets the verdict false
C10_Witness ==
    /\ output = Some(FALSE)
    /\ Contains(Lower(input.title), "remote")
    /\ Contains(Lower(input.description), "work from home")
    /\ Contains(Lower(input.location), "office")

\* C11: whenever _calculate_relevance returns, the score is between 0.0 and 1.0.
C11_ScoreInRange ==
    output # None /\ ~Val(output).raised
    => 0 <= Val(output).score /\ Val(output).score <= ScoreScale

\* the score 1.0 is reached: the search term is in the title, and all its words are
\* words of the title and in the text
C11_Witness ==
    /\ output # None
    /\ ~Val(output).raised
    /\ Val(output).score = ScoreScale
    /\ "search_term" \in DOMAIN input.raw_job
    /\ Len(Split(input.raw_job.search_term)) = 2

\* C12 (as the code has it): for a raw posting without a search term (absent or empty)
\* the score is 0.5, whatever the title and the description.
C12_NoSearchTermScoresHalf ==
    /\ output # None
    /\ "search_term" \notin DOMAIN input.raw_job \/ input.raw_job.search_term = ""
    => ~Val(output).raised /\ 2 * Val(output).score = ScoreScale

\* a posting without the key search_term, with a title and a description, was scored
C12_Witness ==
    /\ output # None
    /\ "search_term" \notin DOMAIN input.raw_job
    /\ input.title # ""
    /\ input.description # ""
    /\ 2 * Val(output).score = ScoreScale

\* C12 as stated: for a raw posting without a search term (absent or empty) the score
\* is 0.
C12_AsStated ==
    /\ output # None
    /\ "search_term" \notin DOMAIN input.raw_job \/ input.raw_job.search_term = ""
    => ~Val(output).raised /\ Val(output).score = 0

\* C13: whenever _parse_salary returns a range, salary_min <= salary_max.
C13_MinAtMostMax ==
    output # None /\ Val(output)[1] # None /\ Val(output)[2] # None
    => Val(Val(output)[1]) <= Val(Val(output)[2])

\* C14: whenever _parse_salary returns values, both lie in [10000, 1000000].
C14_InBand ==
    output # None =>
        \A n \in 1..2 :
            Val(output)[n] # None
            => 10000 <= Val(Val(output)[n]) /\ Val(Val(output)[n]) <= 1000000

\* the first match has amounts below the band and is passed over; a later match of the
\* same pattern is returned
C14_Witness ==
    /\ output = Some(<<Some(60000), Some(70000)>>)
    /\ Contains(input, "$5 - $10")

\* salary_patterns[n] has a match in text
PatternMatches(n, text) ==
    FindIter(salary_patterns[n].re, salary_patterns[n].groups, text, 1) # <<>>

\* C15: _parse_salary returns both ends or neither; when only the pattern of a single
\* amount matches and a value is returned, both ends are that amount; when no pattern
\* matches, both ends are null.
C15_BothOrNeither ==
    output # None =>
        /\ Val(output)[1] = None <=> Val(output)[2] = None
        /\ (\A n \in 1..Len(salary_patterns) :
                PatternMatches(n, input) => salary_patterns[n].groups = 1)
           => Val(output)[1] = Val(output)[2]
        /\ (\A n \in 1..Len(salary_patterns) : ~PatternMatches(n, input))
           => Val(output) = <<None, None>>

\* a text with one amount gives that amount at both ends
C15_Witness ==
    /\ input = "$95,000 per year"
    /\ output = Some(<<Some(95000), Some(95000)>>)
    /\ \A n \in 1..Len(salary_patterns) :
          PatternMatches(n, input) => salary_patterns[n].groups = 1

\* C16: two postings whose URLs give the same host and the same identifier get the same
\* id, whatever their titles and companies.
C16_UrlIdentityDecidesId ==
    /\ output # None
    /\ UrlIdentity(input[1].url) # None
    /\ UrlIdentity(input[1].url) = UrlIdentity(input[2].url)
    => Val(output)[1] = Val(output)[2]

\* two postings with different titles, one with the job number in the path and one with
\* it in the query of another path on the same host, get one id
C16_Witness ==
    /\ output # None
    /\ input[1].title = "Data Scientist"
    /\ input[2].title = "Senior Engineer"
    /\ input[1].url = "https://greenhouse.io/jobs/998877"
    /\ input[2].url = "https://greenhouse.io/view?id=998877"
    /\ Val(output)[1] = Val(output)[2]

\* a and b are equal up to letter case, runs of whitespace, and leading and trailing
\* whitespace
SameUpToCaseAndSpace(a, b) == Lower(Join(Split(a), " ")) = Lower(Join(Split(b), " "))

\* C17: two postings without a URL identifier whose titles and companies are equal up
\* to letter case and whitespace get the same id.
C17_TitleCompanyDecidesId ==
    /\ output # None
    /\ UrlIdentity(input[1].url) = None
    /\ UrlIdentity(input[2].url) = None
    /\ SameUpToCaseAndSpace(input[1].title, input[2].title)
    /\ SameUpToCaseAndSpace(input[1].company, input[2].company)
    => Val(output)[1] = Val(output)[2]

\* titles and companies that differ in case and whitespace, one posting without a URL
\* and one with a URL that has no identifier: one id
C17_Witness ==
    /\ output # None
    /\ input[1] = [title |-> "Data Scientist", company |-> "DataCorp", url |-> ""]
    /\ input[2] = [title |-> "  data   SCIENTIST ", company |-> " datacorp",
                   url |-> "https://example.com/careers"]
    /\ Val(output)[1] = Val(output)[2]

\* C18: no ProcessedJob is constructed for a raw posting whose title is absent or empty.
C18_NoJobWithoutTitle ==
    /\ output # None
    /\ "title" \notin DOMAIN input \/ input.title = ""
    => Val(output).job = None

\* the fields of a ProcessedJob that are a raw field as given or cleaned
PlainFields == {"company", "location", "salary", "source_site", "search_term",
                "posting_date", "url"}

\* C20 (as the code has it): whatever keys of a raw posting are absent, extraction gives
\* a job; an absent company, location, salary, source_site, search_term, posting_date or
\* url gives the empty string, an absent description the snippet (the empty string,
\* with empty summary and requirements, when the snippet is absent too), an absent
\* found_date the reading of the clock, and the salary bounds are null when salary,
\* description and snippet are all absent.
C20_MissingFieldsDefault ==
    output # None =>
        /\ Val(output).job # None
        /\ \A f \in PlainFields : f \notin DOMAIN input => Val(Val(output).job)[f] = ""
        /\ "description" \notin DOMAIN input /\ "snippet" \in DOMAIN input
           => Val(Val(output).job).description = input.snippet
        /\ "description" \notin DOMAIN input /\ "snippet" \notin DOMAIN input
           => /\ Val(Val(output).job).description = ""
              /\ Val(Val(output).job).summary = ""
              /\ Val(Val(output).job).requirements = ""
        /\ "found_date" \notin DOMAIN input
           => Val(Val(output).job).found_date = Val(output).now
        /\ "found_date" \in DOMAIN input
           => Val(Val(output).job).found_date = input.found_date
        /\ {"salary", "description", "snippet"} \cap DOMAIN input = {}
           => /\ Val(Val(output).job).salary_min = None
              /\ Val(Val(output).job).salary_max = None

\* a posting that has a title and a snippet and nothing else was extracted
C20_Witness ==
    /\ output # None
    /\ DOMAIN input = {"title", "snippet"}
    /\ Val(output).job # None
    /\ Val(Val(output).job).company = ""
    /\ Val(Val(output).job).description = input.snippet
    /\ Val(Val(output).job).found_date = Val(output).now

\* C20 as stated: whatever subset of company, location, description, snippet, salary,
\* source_site, search_term, posting_date, found_date and url is absent, extraction
\* gives a job, and every absent field of these that the job has is the empty string.
C20_AsStated ==
    output # None =>
        /\ Val(output).job # None
        /\ \A f \in PlainFields \cup {"description", "found_date"} :
              f \notin DOMAIN input => Val(Val(output).job)[f] = ""

\* C19: after the caller has reset the processor, a posting whose id was emitted before
\* the reset is emitted again by the next call if it passes the filter (the first time
\* that call meets the id).
C19_EmittedAgainAfterReset ==
    /\ at_reset # None
    /\ pc = "loop"
    /\ calls = Val(at_reset).calls + 1
    => \A j \in 1..Len(log) :
          /\ log[j].filter = "include"
          /\ log[j].id \in Val(at_reset).seen_jobs
          /\ \A i \in 1..(j - 1) : log[i].id # log[j].id
          => Emits(j)

\* the job that line 54 gives for the record of the try block on its own
TryJob == ProcessedOf(input.raw_job, input.now, config)

QueryValues(url, param) ==
    Bind(ParseQs(UrlParse(url).query), LAMBDA pairs :
        SelectSeq(pairs, LAMBDA pair : pair[1] = param))

\* the positions of the path segments of url that are all digits or longer than 10
\* characters
IdSegments(url) ==
    Bind(SplitOn(UrlParse(url).path, "/"), LAMBDA parts :
        {n \in 1..Len(parts) : parts[n] # "" /\ (IsDigit(parts[n]) \/ Len(parts[n]) > 10)})

HexDigits == {"0", "1", "2", "3", "4", "5", "6", "7", "8", "9", "a", "b", "c", "d", "e", "f"}

\* C22: for a non-empty URL the id is the digest of the host and the value of the first
\* parameter present in the query among id, job_id, jobId, posting_id, in that order of
\* priority; if none of them is present, of the host and the last path segment that is
\* all digits or longer than 10 characters; if there is no such segment either, or the
\* URL is empty, of the lowercased title and company.  The id always has 16 hexadecimal
\* characters.
C22_IdSelection ==
    output # None =>
        LET url == input.url
            names == <<"id", "job_id", "jobId", "posting_id">>
            present == {n \in 1..4 : QueryValues(url, names[n]) # <<>>}
            first == CHOOSE n \in present : \A m \in present : n <= m
            parts == SplitOn(UrlParse(url).path, "/")
            last == CHOOSE n \in IdSegments(url) : \A m \in IdSegments(url) : m <= n
            hashed == IF url # "" /\ present # {}
                      THEN UrlParse(url).netloc \o "_" \o QueryValues(url, names[first])[1][2]
                      ELSE IF url # "" /\ IdSegments(url) # {}
                      THEN UrlParse(url).netloc \o "_" \o parts[last]
                      ELSE ReplaceChar(Lower(input.title) \o "_" \o Lower(input.company),
                                       " ", "_")
        IN /\ Val(output) = Md5Hex16(hashed)
           /\ Len(Val(output)) = 16
           /\ \A i \in 1..16 : At(Val(output), i) \in HexDigits

\* the query has posting_id before jobId, and the value of jobId is used
C22_Witness ==
    /\ output # None
    /\ input.url = "https://boards.io/view?posting_id=7&jobId=8"
    /\ Val(output) = Md5Hex16("boards.io_8")

\* C23: when the search term is not empty and the score is returned, it is
\* min(1.0, 0.5 * [the lowercased term is a substring of the lowercased title]
\*          + 0.3 * (the fraction of the whitespace-split words of the term that are
\*                   whole words of the title)
\*          + 0.2 * (the fraction of the words of the term that occur anywhere in
\*                   title + " " + description)),
\* and so it is 1.0 when the title contains the term and each of the term's words as a
\* whole word.
C23_ScoreFormula ==
    /\ output # None
    /\ ~Val(output).raised
    /\ "search_term" \in DOMAIN input.raw_job
    /\ input.raw_job.search_term # ""
    => LET term == Lower(input.raw_job.search_term)
           words == Split(term)
           title == Lower(input.title)
           text == Lower(input.title \o " " \o input.description)
           inTitle == {n \in 1..Len(words) :
                          \E k \in 1..Len(Split(title)) : Split(title)[k] = words[n]}
           inText == {n \in 1..Len(words) : Contains(text, words[n])}
           sum == (IF Contains(title, term) THEN 5 * (ScoreScale \div 10) ELSE 0)
                  + (3 * (ScoreScale \div 10) * Cardinality(inTitle)) \div Len(words)
                  + (2 * (ScoreScale \div 10) * Cardinality(inText)) \div Len(words)
       IN /\ Val(output).score = IF sum > ScoreScale THEN ScoreScale ELSE sum
          /\ Contains(title, term) /\ Cardinality(inTitle) = Len(words)
             => Val(output).score = ScoreScale

\* a term of two words, one of them part of a longer word of the description only:
\* the score is 0.2 * 2/2
C23_Witness ==
    /\ output # None
    /\ ~Val(output).raised
    /\ "search_term" \in DOMAIN input.raw_job
    /\ input.raw_job.search_term = "data scientist"
    /\ input.title = "Senior Software Engineer"
    /\ input.description = "We need a data scientist."
    /\ 10 * Val(output).score = 2 * ScoreScale

\* the matches of salary_patterns[n] in text, in the order of finditer
MatchesOf(n, text) == FindIter(salary_patterns[n].re, salary_patterns[n].groups, text, 1)

\* the positions of the matches of salary_patterns[n] in text whose amounts are in the band
InBandMatches(n, text) ==
    {k \in 1..Len(MatchesOf(n, text)) :
        SalaryOfMatch(salary_patterns[n].groups, MatchesOf(n, text)[k]) # None}

\* C24: the patterns are tried in the order of salary_patterns: the result is that of
\* the first pattern, in that order, with a match whose amounts are in the band (its
\* first such match), whatever the later patterns match; a match with amounts outside
\* the band does not end the scan; without any match in the band both ends are null.
C24_FirstInBandPatternWins ==
    output # None =>
        /\ \A n \in 1..Len(salary_patterns) :
              /\ InBandMatches(n, input) # {}
              /\ \A m \in 1..(n - 1) : InBandMatches(m, input) = {}
              => LET k == CHOOSE i \in InBandMatches(n, input) :
                              \A j \in InBandMatches(n, input) : i <= j
                 IN Val(output) =
                       Val(SalaryOfMatch(salary_patterns[n].groups, MatchesOf(n, input)[k]))
        /\ (\A n \in 1..Len(salary_patterns) : InBandMatches(n, input) = {})
           => Val(output) = <<None, None>>

\* the first two patterns match with amounts outside the band and the third pattern gives
\* the result
C24_Witness ==
    /\ output = Some(<<Some(20000), Some(30000)>>)
    /\ MatchesOf(1, input) # <<>> /\ InBandMatches(1, input) = {}
    /\ MatchesOf(2, input) # <<>> /\ InBandMatches(2, input) = {}
    /\ InBandMatches(3, input) # {}

\* C25: the amounts of a range written with the suffix k are multiplied by 1000 before
\* the test of the band, so "80k - 120k" gives 80000 and 120000; the amounts of a match
\* without the suffix are the numbers written, never multiplied.
C25_ThousandsSuffix ==
    output # None =>
        /\ input = "80k - 120k" => Val(output) = <<Some(80000), Some(120000)>>
        /\ \A n \in 1..Len(salary_patterns) :
              /\ InBandMatches(n, input) # {}
              /\ \A m \in 1..(n - 1) : InBandMatches(m, input) = {}
              => LET k == CHOOSE i \in InBandMatches(n, input) :
                              \A j \in InBandMatches(n, input) : i <= j
                     match == MatchesOf(n, input)[k]
                     factor == IF Contains(Lower(match.group0), "k") THEN 1000 ELSE 1
                 IN /\ Contains(Lower(match.group0), "k") <=> n = 5
                    /\ Val(Val(output)[1]) = factor * ParseInt(Val(match.caps[1]), 0)
                    /\ salary_patterns[n].groups = 2
                       => Val(Val(output)[2]) = factor * ParseInt(Val(match.caps[2]), 0)

\* amounts written with the suffix k were multiplied and passed the test of the band
C25_Witness ==
    /\ input = "Pay 50k to 60k"
    /\ output = Some(<<Some(50000), Some(60000)>>)

\* C26: the cleaned text has no whitespace at its start or end and no two whitespace
\* characters in a row, and cleaning it again gives the same text.
C26_CleanIsNormalized ==
    output # None =>
        LET t == Val(output)
        IN /\ t # "" => At(t, 1) \notin Whitespace /\ At(t, Len(t)) \notin Whitespace
           /\ \A i \in 1..(Len(t) - 1) :
                 ~(At(t, i) \in Whitespace /\ At(t, i + 1) \in Whitespace)
           /\ _clean_text(t) = t

\* C27: the summary is never longer than config.output.max_summary_length.
C27_SummaryBounded ==
    output # None => Len(Val(output)) <= config.output.max_summary_length

\* the id that lines 75-82 give a raw posting, before anything else is computed from it
RawIdTable ==
    [raw_job \in RawSet |->
        _generate_job_id(_clean_text(Get(raw_job, "title", "")),
                         _clean_text(Get(raw_job, "company", "")),
                         Get(raw_job, "url", ""))] @@ <<>>

\* One record handled in the order of the specification: the fields and the id are
\* extracted; a record whose id is in the seen-set goes no further; the others are
\* scored, and a record whose scoring fails is dropped; the scored job is filtered, and a
\* record for which the filter fails or answers no is dropped; an accepted job is
\* appended and its id recorded.
SpecifiedBody(seen, processed, raw_job, now, cfg) ==
    IF RawIdTable[raw_job] \in seen
    THEN [seen_jobs |-> seen, processed_jobs |-> processed]
    ELSE IF CalculateRelevanceRaises(raw_job)
    THEN [seen_jobs |-> seen, processed_jobs |-> processed]
    ELSE IF FilterTable[<<Val(ProcessedOf(raw_job, now, cfg)), cfg.filters>>] = "include"
    THEN [seen_jobs |-> seen \cup {RawIdTable[raw_job]},
          processed_jobs |-> Append(processed, Val(ProcessedOf(raw_job, now, cfg)))]
    ELSE [seen_jobs |-> seen, processed_jobs |-> processed]

\* the records 1..n of the running call handled in the order of the specification, from
\* the seen-set the call began with, with the clock readings they had
RECURSIVE SpecifiedRun(_)
SpecifiedRun(n) ==
    IF n = 0 THEN [seen_jobs |-> call_seen, processed_jobs |-> <<>>]
    ELSE Bind(SpecifiedRun(n - 1), LAMBDA r :
             SpecifiedBody(r.seen_jobs, r.processed_jobs, raw_jobs[n], log[n].now, config))

\* C28: handling the records in the order extract, duplicate check, score, filter gives
\* what process_jobs gives with its order extract, score, filter, duplicate check: after
\* every record of every call the list of emitted jobs and the seen-set are the same.
C28_OrdersAgree ==
    pc = "loop" =>
        SpecifiedRun(Len(log)) = [seen_jobs |-> seen_jobs, processed_jobs |-> processed_jobs]

\* a call that emitted a job and also met a duplicate for which the filter was evaluated
\* and said no or raised, a step that the order of the specification does not take
C28_Witness ==
    /\ AtReturn
    /\ processed_jobs # <<>>
    /\ \E j \in 1..Len(log) :
          log[j].extracted /\ ~log[j].fresh /\ log[j].filter \in {"exclude", "raise"}

\* the search term of raw_job is not empty and holds nothing but whitespace
BlankSearchTerm(raw_job) ==
    /\ "search_term" \in DOMAIN raw_job
    /\ raw_job.search_term # ""
    /\ \A i \in 1..Len(raw_job.search_term) : At(raw_job.search_term, i) \in Whitespace

\* C30: a raw posting whose search term is not empty and consists of whitespace only
\* gives no job (the division by the number of its words raises and the exception is
\* caught); the record is skipped without an exception leaving the call, it is not
\* emitted, and the seen-set holds what it held when the call began and the ids of the
\* emitted jobs, none of which comes from this record.
C30_BlankSearchTermSkipped ==
    /\ pc # "raised"
    /\ pc = "loop" =>
          \A j \in 1..Len(log) :
              BlankSearchTerm(raw_jobs[j])
              => /\ ~log[j].extracted
                 /\ ~Emits(j)
                 /\ seen_jobs = call_seen \cup {processed_jobs[k].id : k \in 1..Len(origin)}

\* a call of one record with a blank search term has ended with nothing emitted and the
\* seen-set as it was, for a posting that the filter accepts when its search term is
\* "devops", and whose id is not in the seen-set
C30_Witness ==
    /\ AtReturn
    /\ Len(raw_jobs) = 1
    /\ BlankSearchTerm(raw_jobs[1])
    /\ processed_jobs = <<>>
    /\ seen_jobs = call_seen
    /\ LET job == Val(_process_single_job([raw_jobs[1] EXCEPT !.search_term = "devops"],
                                         log[1].now, config))
       IN FilterOutcome(job, config.filters) = "include" /\ job.id \notin seen_jobs

\* C29: when the callers wrap each process_jobs call in a lock, no state is reachable in
\* which two concurrent calls on one processor have emitted jobs with the same id.
\* (Without the lock such a state is reachable: C29_Witness.)
C29_NoDuplicateUnderLock ==
    input.locking =>
        \A t1, t2 \in Threads :
            \A k1 \in 1..Len(threads.run[t1].processed_jobs) :
            \A k2 \in 1..Len(threads.run[t2].processed_jobs) :
                threads.run[t1].processed_jobs[k1].id = threads.run[t2].processed_jobs[k2].id
                => t1 = t2 /\ k1 = k2

\* without the lock: both calls have returned, and each has emitted a job with the same
\* id, which is in the seen-set once
C29_Witness ==
    /\ ~input.locking
    /\ \A t \in Threads : threads.run[t].pc = "returned"
    /\ Len(threads.run[1].processed_jobs) = 1
    /\ Len(threads.run[2].processed_jobs) = 1
    /\ threads.run[1].processed_jobs[1].id = threads.run[2].processed_jobs[1].id
    /\ seen_jobs = {threads.run[1].processed_jobs[1].id}

====
